---- MODULE Spec2Model ----
(***************************************************************************)
(* wk: git worktrees kept in a depot outside the repository.               *)
(*                                                                         *)
(* The commands of src/src/commands.ts are modelled as sequences of steps, *)
(* one step per state-changing git call, over an abstract git repository   *)
(* state (branches, checkouts, registered worktrees, directories).         *)
(* Names, branches and paths are sequences of path segments, so that a     *)
(* name such as f/a is <<"f", "a">>.                                       *)
(***************************************************************************)
EXTENDS Integers, Sequences, FiniteSets, TLC

\* ---------------------------------------------------------------- bounds

\* Commit ids are 0..MaxCommits.
MaxCommits == 2
\* Linked worktrees registered at any time, over all repositories.
MaxWorktrees == 2

\* ---------------------------------------------------------------- values

NoName == <<>>
NoBranch == <<>>
Undefined == "<undefined>"

Main == <<"main">>
Dev == <<"dev">>

\* Worktree names given on the command line.
Names == {<<"a">>, <<"b">>, <<"f", "a">>}
NameArgs == Names \cup {NoName}
Targets == {Main, Dev}
Repos == {"r1", "r2"}
RepoArgs == Repos
\* dlink is a symbolic link to depot.
Depots == {<<"depot">>, <<"dlink">>}
Elsewhere == {<<"else", "a">>}
ApplyRepoArgs == {"r1"}
ApplyNameArgs == {<<"a">>, NoName}
BaseArgs == {Main}
\* --branch absent or given
BranchArgs == {NoBranch, Dev}
\* --message absent or given
MessageArgs == {Undefined, "msg", ""}

CleanTree == [dirty |-> FALSE, staged |-> FALSE, conflict |-> FALSE]
WkFiles == {"clean", "untracked", "unstaged", "staged", "conflict"}

\* ----------------------------------------------------------------- paths

RECURSIVE NormFrom(_, _)
NormFrom(rest, acc) ==
  IF rest = <<>> THEN acc
  ELSE LET s == Head(rest) IN
       IF s = ".." THEN
         NormFrom(Tail(rest),
                  IF acc = <<>> THEN <<>> ELSE SubSeq(acc, 1, Len(acc) - 1))
       ELSE IF s = "." THEN NormFrom(Tail(rest), acc)
       ELSE NormFrom(Tail(rest), Append(acc, s))

\* path.join / path.resolve of absolute paths: concatenate and normalise.
PathJoin(a, b) == NormFrom(a \o b, <<>>)

Basename(p) == IF p = <<>> THEN "" ELSE p[Len(p)]
Dirname(p) == IF p = <<>> THEN <<>> ELSE SubSeq(p, 1, Len(p) - 1)

IsPrefix(pre, p) == Len(pre) <= Len(p) /\ SubSeq(p, 1, Len(pre)) = pre

RepoRoot(r) == <<r>>

\* `${sanitised basename}-${first 10 hex digits of sha1(root)}`: one segment,
\* distinct for distinct roots.
repoIdFromRoot(root) ==
  CASE root = <<"r1">> -> "r1-h1"
    [] root = <<"r2">> -> "r2-h2"
    [] OTHER -> "x-h0"

worktreePath(depot, root, name) ==
  PathJoin(depot, PathJoin(<<repoIdFromRoot(root)>>, name))

\* Symbolic links resolved.
ResolveLinks(p) ==
  IF p # <<>> /\ Head(p) = "dlink" THEN <<"depot">> \o Tail(p) ELSE p

\* ------------------------------------------------------------ arguments

\* Longest argument vector.
MaxArgs == 3

\* One command-line token: a word, "--", "--name", "--name=value", "-c".
Tok(t, name, value) == [t |-> t, name |-> name, value |-> value]
Word(w) == Tok("word", w, "")
DashDash == Tok("dd", "", "")
Long(k) == Tok("long", k, "")
LongEq(k, v) == Tok("longeq", k, v)
Short(c) == Tok("short", c, "")
NoTok == Tok("none", "", "")

ArgTokens ==
  {Word("a"), DashDash, Long("repo"), Long("all"), Long("zz"),
   LongEq("all", "false"), LongEq("help", "true"), Short("h")}

ArgVecs == UNION {[1..n -> ArgTokens] : n \in 0..MaxArgs}

\* String.prototype.startsWith("-") on the text of a token.
startsWithDash(tok) == tok.t \in {"dd", "long", "longeq", "short"}

optionType_AllStrings(name) == "string"

\* optionSpec[name].type, absent for a name optionSpec does not list
optionType(name) ==
  CASE name \in {"branch", "depot", "message", "repo", "target"} -> "string"
    [] name \in {"all", "delete-branch", "force", "help", "keep-branch",
                 "merge", "no-branch", "no-ff", "patch", "rebase"} -> "boolean"
    [] OTHER -> "unknown"

\* optionSpec: help has short h
findLongOptionForShort(c) == IF c = "h" THEN "help" ELSE c

\* util.parseArgs, strict: false: any next argument is a value.
isOptionValue(remaining) == remaining # <<>>

OptionToken(name, rawLong, value) ==
  [kind |-> "option", name |-> name, rawLong |-> rawLong, value |-> value]
PositionalToken(tok) ==
  [kind |-> "positional", name |-> "", rawLong |-> FALSE, value |-> tok]
TerminatorToken ==
  [kind |-> "option-terminator", name |-> "", rawLong |-> FALSE,
   value |-> NoTok]

\* The tokens of util.parseArgs({args, options: optionSpec, strict: false,
\* allowPositionals: true, tokens: true}).
RECURSIVE argsToTokens(_)
argsToTokens(rest) ==
  IF rest = <<>> THEN <<>>
  ELSE
    LET arg == Head(rest)
        remaining == Tail(rest)
        name == IF arg.t = "short" THEN findLongOptionForShort(arg.name)
                ELSE arg.name
    IN
    IF arg.t = "dd" THEN
      <<TerminatorToken>>
        \o [i \in 1..Len(remaining) |-> PositionalToken(remaining[i])]
    ELSE IF arg.t \in {"short", "long"} THEN
      IF optionType(name) = "string" /\ isOptionValue(remaining)
      THEN <<OptionToken(name, arg.t = "long", Head(remaining))>>
             \o argsToTokens(Tail(remaining))
      ELSE <<OptionToken(name, arg.t = "long", NoTok)>>
             \o argsToTokens(remaining)
    ELSE IF arg.t = "longeq" THEN
      <<OptionToken(name, TRUE, Word(arg.value))>> \o argsToTokens(remaining)
    ELSE <<PositionalToken(arg)>> \o argsToTokens(remaining)

\* A flag value: absent, boolean true, or a string.
Unset == [type |-> "undefined", b |-> FALSE, s |-> NoTok]
FlagBoolean(b) == [type |-> "boolean", b |-> b, s |-> NoTok]
FlagTrue == FlagBoolean(TRUE)
FlagString(tok) == [type |-> "string", b |-> FALSE, s |-> tok]

FlagKeys == {"repo", "all", "zz", "help", "h"}

\* shortToLong[token.name] ?? token.name
shortToLong(name) == IF name = "h" THEN "help" ELSE name

RECURSIVE SelectSeq2(_, _)
SelectSeq2(tokens, kind) ==
  IF tokens = <<>> THEN <<>>
  ELSE (IF Head(tokens).kind = kind THEN <<Head(tokens)>> ELSE <<>>)
         \o SelectSeq2(Tail(tokens), kind)

parseCliArgs(v) ==
  LET tokens == argsToTokens(v)
      options == SelectSeq2(tokens, "option")
      positionals == SelectSeq2(tokens, "positional")
      key(t) == IF t.rawLong THEN t.name ELSE shortToLong(t.name)
      last(k) == LET idx == {i \in 1..Len(options) : key(options[i]) = k}
                 IN IF idx = {} THEN 0
                    ELSE CHOOSE i \in idx : \A j \in idx : j <= i
  IN [pos |-> [i \in 1..Len(positionals) |-> positionals[i].value],
      flags |-> [k \in FlagKeys |->
                   IF last(k) = 0 THEN Unset
                   ELSE IF options[last(k)].value = NoTok THEN FlagTrue
                   ELSE FlagString(options[last(k)].value)]]

\* flagStr: the fallback is a token, NoTok for undefined.
flagStr(a, key, fallback) ==
  LET value == a.flags[key] IN
  IF value.type = "string" THEN value.s ELSE fallback

flagBool_Truthy(a, key, fallback) ==
  LET value == a.flags[key] IN
  IF value.type = "boolean" THEN value.b
  ELSE IF value.type = "string" THEN TRUE
  ELSE fallback

flagBool(a, key, fallback) ==
  LET value == a.flags[key] IN
  IF value.type = "boolean" THEN value.b
  ELSE IF value.type = "string" THEN value.s = Word("true")
  ELSE fallback

VARIABLES
  main,        \* main[r]: the checkout at the repository root
  refs,        \* refs[r]: local branches, each with the set of its commits
  wts,         \* registered linked worktrees
  fsDirs,      \* directories that exist (canonical paths)
  nextCommit,  \* next unused commit id
  pc,          \* position inside the running command, "idle" between commands
  cur,         \* arguments of the running (or last) command
  loc,         \* locals of the running command
  calls,       \* state-changing git calls issued by the command, in order
  errOut,      \* messages written to error output by the command
  stdOut,      \* messages written to standard output by the command
  status,      \* "none" | "running" | "ok" | "error" | "exit"
  err,         \* error raised by the command
  pre,         \* repository state when the command started
  argv,        \* process.argv.slice(2), as tokens
  args         \* parseCliArgs(argv)

world == <<main, refs, wts, fsDirs, nextCommit>>
cmdvars == <<pc, cur, loc, calls, errOut, stdOut, status, err, pre,
             argv, args>>
vars == <<main, refs, wts, fsDirs, nextCommit,
          pc, cur, loc, calls, errOut, stdOut, status, err, pre, argv, args>>

existsSync_Always(p) == TRUE

existsSync(p) == ResolveLinks(p) \in fsDirs

\* realpathSync with the path.resolve fallback of its catch block.
realpathOrResolve(p) == IF existsSync(p) THEN ResolveLinks(p) ELSE p

\* ------------------------------------------------------- git, as observed

Snapshot == [main |-> main, refs |-> refs, wts |-> wts, fsDirs |-> fsDirs]
NoSnapshot ==
  [main |-> [r \in Repos |-> [head |-> NoBranch, at |-> {}, tree |-> CleanTree]],
   refs |-> [r \in Repos |-> <<>>], wts |-> {}, fsDirs |-> {}]

\* The linked worktree checked out at directory dir (no or one record).
WtAt(dir) == {w \in wts : ResolveLinks(w.path) = ResolveLinks(dir)}

\* Whether git run in dir finds a checkout there.
IsCheckout(dir) == existsSync(dir) /\ WtAt(dir) # {}

MainHist(r) ==
  IF main[r].head = NoBranch THEN main[r].at ELSE refs[r][main[r].head]

WtHist(w) == IF w.head = NoBranch THEN w.at ELSE refs[w.repo][w.head]

\* Branch b is checked out in a linked worktree of r other than those in skip.
InUseByWorktree(r, b, skip) ==
  \E v \in wts \ skip : v.repo = r /\ v.head = b

isDirtyMain_TrackedOnly(r) == main[r].tree.staged \/ main[r].tree.conflict

\* git status --porcelain is non-empty.
isDirtyMain(r) ==
  main[r].tree.dirty \/ main[r].tree.staged \/ main[r].tree.conflict

isDirtyWt(w) == w.files # "clean"

\* git rev-parse --abbrev-ref HEAD, "HEAD" and failure mapped to null.
currentBranchMain(r) == main[r].head

currentBranchWt(dir) ==
  IF ~IsCheckout(dir) THEN NoBranch
  ELSE LET w == CHOOSE x \in WtAt(dir) : TRUE IN
       IF w.files = "conflict" THEN NoBranch ELSE w.head

resolveApplyMode_RebaseFirst(merge, rebase, patch) ==
  IF rebase THEN "rebase"
  ELSE IF patch THEN "patch"
  ELSE "merge"

resolveApplyMode(merge, rebase, patch) ==
  IF patch THEN "patch"
  ELSE IF rebase THEN "rebase"
  ELSE IF merge THEN "merge"
  ELSE "merge"

\* git merge-base target name, falling back to target.
BaseRef(r, target, name) ==
  IF target \in DOMAIN refs[r] /\ name \in DOMAIN refs[r]
  THEN refs[r][target] \cap refs[r][name]
  ELSE IF target \in DOMAIN refs[r] THEN refs[r][target]
  ELSE {}

\* The outcomes git checkout <b> can have in the main checkout of r.
MainCheckoutOutcomes(r, b) ==
  IF b \notin DOMAIN refs[r] THEN {FALSE}
  ELSE IF InUseByWorktree(r, b, {}) THEN {FALSE}
  ELSE IF main[r].tree.conflict THEN {FALSE}
  ELSE IF (main[r].tree.dirty \/ main[r].tree.staged)
          /\ MainHist(r) # refs[r][b] THEN {TRUE, FALSE}
  ELSE {TRUE}

MainAfterCheckout(r, b) == [main EXCEPT ![r].head = b, ![r].at = {}]

\* The outcomes git checkout <b> can have in the linked worktree at dir.
WtCheckoutOutcomes(dir, b) ==
  IF ~IsCheckout(dir) THEN {FALSE}
  ELSE LET w == CHOOSE x \in WtAt(dir) : TRUE IN
       IF w.files = "conflict" THEN {FALSE}
       ELSE IF w.head = b THEN {TRUE}
       ELSE IF b \notin DOMAIN refs[w.repo] THEN {FALSE}
       ELSE IF main[w.repo].head = b \/ InUseByWorktree(w.repo, b, {w})
         THEN {FALSE}
       ELSE IF w.files # "clean" /\ WtHist(w) # refs[w.repo][b]
         THEN {TRUE, FALSE}
       ELSE {TRUE}

WtsAfterCheckout(dir, b) ==
  {IF v \in WtAt(dir) THEN [v EXCEPT !.head = b, !.at = {}] ELSE v : v \in wts}

\* git checkout --detach in the linked worktree at dir.
WtsAfterDetach(dir) ==
  {IF v \in WtAt(dir) THEN [v EXCEPT !.head = NoBranch, !.at = WtHist(v)]
   ELSE v : v \in wts}

MergeResult(ok, hist, fresh, conflict) ==
  [ok |-> ok, hist |-> hist, fresh |-> fresh, conflict |-> conflict]

\* The outcomes of git merge [flag] name in the main checkout of r, which is
\* on a branch: already up to date, fast-forward, merge commit, or failure.
GitMerge(r, name, flag) ==
  LET H == MainHist(r) IN
  IF name \notin DOMAIN refs[r] THEN {MergeResult(FALSE, H, FALSE, FALSE)}
  ELSE LET N == refs[r][name] IN
       IF N \subseteq H THEN {MergeResult(TRUE, H, FALSE, FALSE)}
       ELSE IF H \subseteq N /\ flag # "--no-ff"
         THEN {MergeResult(TRUE, N, FALSE, FALSE)}
       ELSE IF flag = "--ff-only" THEN {MergeResult(FALSE, H, FALSE, FALSE)}
       ELSE IF H \subseteq N
         THEN {MergeResult(TRUE, H \cup N \cup {nextCommit}, TRUE, FALSE)}
       ELSE {MergeResult(TRUE, H \cup N \cup {nextCommit}, TRUE, FALSE),
             MergeResult(FALSE, H, FALSE, TRUE)}

\* The outcomes of git rebase target in the linked worktree at dir.
GitRebase(dir, target) ==
  LET w == CHOOSE x \in WtAt(dir) : TRUE
      N == WtHist(w)
      T == refs[w.repo][target]
  IN IF w.files \in {"unstaged", "staged", "conflict"}
       THEN {MergeResult(FALSE, N, FALSE, FALSE)}
     ELSE IF T \subseteq N THEN {MergeResult(TRUE, N, FALSE, FALSE)}
     ELSE IF N \subseteq T THEN {MergeResult(TRUE, T, FALSE, FALSE)}
     ELSE {MergeResult(TRUE, T \cup {nextCommit}, TRUE, FALSE),
           MergeResult(FALSE, N, FALSE, TRUE)}

\* ------------------------------------------------------------ patch text

\* Text is a sequence of tokens; "\n" and " " are white space.
IsSpace(t) == t \in {"\n", " "}

RECURSIVE TrimEnd(_)
TrimEnd(t) ==
  IF t = <<>> THEN <<>>
  ELSE IF IsSpace(t[Len(t)]) THEN TrimEnd(SubSeq(t, 1, Len(t) - 1))
  ELSE t

RECURSIVE TrimStart(_)
TrimStart(t) ==
  IF t = <<>> THEN <<>>
  ELSE IF IsSpace(Head(t)) THEN TrimStart(Tail(t))
  ELSE t

Trim(t) == TrimStart(TrimEnd(t))

\* What git writes to standard output, before run() trims its end.
DiffOutput(nonEmpty, tag) == IF nonEmpty THEN <<tag, "\n">> ELSE <<>>

RECURSIVE JoinLines(_)
JoinLines(parts) ==
  IF parts = <<>> THEN <<>>
  ELSE IF Len(parts) = 1 THEN parts[1]
  ELSE parts[1] \o <<"\n">> \o JoinLines(Tail(parts))

\* [committed, staged, unstaged].filter(Boolean).join("\n")
buildPatch(dir, baseRef) ==
  LET w == CHOOSE x \in WtAt(dir) : TRUE
      committed == TrimEnd(DiffOutput(WtHist(w) # baseRef, "committed"))
      staged == TrimEnd(DiffOutput(w.files = "staged", "staged"))
      unstaged ==
        TrimEnd(DiffOutput(w.files \in {"unstaged", "conflict"}, "unstaged"))
      all == <<committed, staged, unstaged>>
  IN JoinLines(SelectSeq(all, LAMBDA x : x # <<>>))

normalizedPatchText(text) ==
  IF text # <<>> /\ text[Len(text)] = "\n" THEN text ELSE Append(text, "\n")

\* -------------------------------------------------------------- commands

NoArgs ==
  [cmd |-> "none", command |-> "none", name |-> NoName, repo |-> "r1",
   depot |-> <<"depot">>,
   target |-> Main, merge |-> FALSE, rebase |-> FALSE, patch |-> FALSE,
   sw |-> FALSE, noFF |-> FALSE, message |-> Undefined,
   all |-> FALSE, force |-> FALSE, deleteBranch |-> FALSE,
   keepBranch |-> FALSE, base |-> Main, branch |-> NoBranch,
   noBranch |-> FALSE]

NoLoc ==
  [prior |-> NoBranch, baseRef |-> {}, mode |-> "none", patch |-> <<>>,
   pending |-> "none", queue |-> <<>>, printed |-> <<>>]

Call(op, in, arg, ok) ==
  [op |-> op, in |-> in, arg |-> arg, ok |-> ok, quiet |-> FALSE]
QuietCall(op, in, arg, ok) ==
  [op |-> op, in |-> in, arg |-> arg, ok |-> ok, quiet |-> TRUE]

\* git worktree add [-b branch] dir ref
AddCall(dir, branch, ref, ok) ==
  [op |-> IF branch # NoBranch THEN "worktree add -b" ELSE "worktree add",
   in |-> "repo", arg |-> dir, ok |-> ok, quiet |-> FALSE,
   branch |-> branch, ref |-> ref]

SetCmd(p, st, e, so, eo) ==
  /\ pc' = p
  /\ status' = st
  /\ err' = e
  /\ stdOut' = so
  /\ errOut' = eo
  /\ UNCHANGED <<argv, args>>

\* run() echoes the output of a failed git call unless the call is quiet.
Echo(ok) == IF ok THEN {} ELSE {"GitOutput"}

Init ==
  /\ main = [r \in Repos |-> [head |-> Main, at |-> {}, tree |-> CleanTree]]
  /\ refs = [r \in Repos |-> (Main :> {0})]
  /\ wts = {}
  /\ fsDirs = {<<"depot">>} \cup {RepoRoot(r) : r \in Repos}
  /\ nextCommit = 1
  /\ pc = "idle"
  /\ cur = NoArgs
  /\ loc = NoLoc
  /\ calls = <<>>
  /\ errOut = {}
  /\ stdOut = {}
  /\ status = "none"
  /\ err = "none"
  /\ pre = NoSnapshot
  /\ argv = <<>>
  /\ args = parseCliArgs(<<>>)

\* ----------------------------------------------------------------- apply

ApplyArgs ==
  {[NoArgs EXCEPT !.cmd = "apply", !.name = n, !.repo = r, !.depot = d,
                  !.target = t, !.merge = f[1], !.rebase = f[2],
                  !.patch = f[3], !.sw = f[4], !.noFF = f[5], !.message = m] :
     n \in ApplyNameArgs, r \in ApplyRepoArgs, d \in {<<"depot">>},
     t \in Targets, f \in [1..5 -> BOOLEAN], m \in MessageArgs}

\* The command lines apply is run with: every combination of the mode flags;
\* --no-ff and --message only where the mode reads them, or, with --switch,
\* together with --target dev.
ApplyRunArgs ==
  {a \in ApplyArgs :
     IF a.sw
     THEN /\ a.message # ""
          /\ a.noFF <=> a.message # Undefined
          /\ a.noFF <=> a.target = Dev
     ELSE /\ a.noFF => ~a.patch /\ ~a.rebase
          /\ a.message # Undefined => a.patch
          /\ a.message = "" => (~a.merge /\ ~a.rebase /\ a.target = Main)}

switchBranch_Ignored(a) == FALSE

\* flagBool(args, "switch", false)
switchBranch(a) == a.sw

requiresCleanRepo_MergeOnly(mode) == mode = "merge"

requiresCleanRepo_Always(mode) == TRUE

\* mode !== "patch": the modes that need a clean main repository
requiresCleanRepo(mode) == mode # "patch"

needsDetach_Never(wkBranch, name) == FALSE

needsDetach_Always(wkBranch, name) == TRUE

\* wkBranch === name
needsDetach(wkBranch, name) == wkBranch = name

shouldRestore_IgnoresTarget(prior, target) == prior # NoBranch

\* priorBranch && priorBranch !== target
shouldRestore(prior, target) == prior # NoBranch /\ prior # target

\* The end of the try block: the finally block restores the prior branch
\* when one was recorded and it is not target, then the outcome stands.
Leave(l, pending, so, eo) ==
  IF shouldRestore(l.prior, cur.target)
  THEN /\ SetCmd("ap_restore", "running", "none", so, eo)
       /\ loc' = [l EXCEPT !.pending = pending]
  ELSE /\ SetCmd("idle", IF pending = "none" THEN "ok" ELSE "error", pending,
                 so, eo)
       /\ loc' = l

\* cmdApply up to its first state-changing git call.
ApplyBegin(a) ==
  /\ pc = "idle"
  /\ status = "none"
  /\ nextCommit <= MaxCommits
  /\ cur' = a
  /\ pre' = Snapshot
  /\ calls' = <<>>
  /\ UNCHANGED world
  /\ LET root == RepoRoot(a.repo)
         wkDir == worktreePath(a.depot, root, a.name)
         mode == resolveApplyMode(a.merge, a.rebase, a.patch)
     IN
     IF a.name = NoName THEN
       SetCmd("idle", "error", "UsageApply", {}, {}) /\ loc' = NoLoc
     ELSE IF a.repo \notin Repos THEN
       SetCmd("idle", "exit", "NotARepository", {}, {"NotARepository"})
       /\ loc' = NoLoc
     ELSE IF ~existsSync(wkDir) THEN
       SetCmd("idle", "error", "WorktreeNotFound", {}, {}) /\ loc' = NoLoc
     ELSE IF switchBranch(a) THEN
       IF isDirtyMain(a.repo) THEN
         SetCmd("idle", "error", "AbortSwitchDirty", {}, {"WarnSwitchDirty"})
         /\ loc' = NoLoc
       ELSE
         SetCmd(IF needsDetach(currentBranchWt(wkDir), a.name)
                THEN "sw_detach" ELSE "sw_checkout",
                "running", "none", {}, {})
         /\ loc' = NoLoc
     ELSE IF requiresCleanRepo(mode) /\ isDirtyMain(a.repo) THEN
       SetCmd("idle", "error", "MainDirty", {}, {})
       /\ loc' = [NoLoc EXCEPT !.mode = mode]
     ELSE IF requiresCleanRepo(mode) /\ ~IsCheckout(wkDir) THEN
       \* git status fails in a directory that is no checkout
       SetCmd("idle", "error", "CommandFailed", {}, {})
       /\ loc' = [NoLoc EXCEPT !.mode = mode]
     ELSE
       SetCmd("ap_checkout_target", "running", "none", {},
              IF requiresCleanRepo(mode)
                 /\ isDirtyWt(CHOOSE x \in WtAt(wkDir) : TRUE)
              THEN {"WarnWorktreeDirty"} ELSE {})
       /\ loc' = [NoLoc EXCEPT !.mode = mode,
                               !.baseRef = BaseRef(a.repo, a.target, a.name),
                               !.prior = currentBranchMain(a.repo)]

WkDir == worktreePath(cur.depot, RepoRoot(cur.repo), cur.name)

\* git(wkDir, ["checkout", "--detach"])
SwDetach ==
  /\ pc = "sw_detach"
  /\ wts' = WtsAfterDetach(WkDir)
  /\ calls' = Append(calls, Call("checkout --detach", "worktree", NoBranch, TRUE))
  /\ SetCmd("sw_checkout", "running", "none", stdOut, errOut)
  /\ UNCHANGED <<main, refs, fsDirs, nextCommit, cur, loc, pre>>

\* git(repoRoot, ["checkout", name]) and the return
SwCheckout ==
  /\ pc = "sw_checkout"
  /\ \E ok \in MainCheckoutOutcomes(cur.repo, cur.name) :
       /\ main' = IF ok THEN MainAfterCheckout(cur.repo, cur.name) ELSE main
       /\ calls' = Append(calls, Call("checkout", "repo", cur.name, ok))
       /\ IF ok
          THEN SetCmd("idle", "ok", "none", stdOut \cup {"AppliedSwitch"}, errOut)
          ELSE SetCmd("idle", "error", "CommandFailed", stdOut,
                      errOut \cup Echo(ok))
  /\ UNCHANGED <<refs, wts, fsDirs, nextCommit, cur, loc, pre>>

patchIsEmpty_Never(patchText) == FALSE

\* !patchText.trim()
patchIsEmpty(patchText) == Trim(patchText) = <<>>

\* path.join(os.tmpdir(), `wk-apply-${name.replace(...)}-${Date.now()}.patch`)
tempPatchPath(name) ==
  <<"tmp", CASE name = <<"a">> -> "wk-apply-a.patch"
             [] name = <<"b">> -> "wk-apply-b.patch"
             [] name = <<"f", "a">> -> "wk-apply-f_a.patch"
             [] OTHER -> "wk-apply-_.patch">>

tempRemoved_OnSuccess(ok) == ok

\* finally { rmSync(tempPatchPath, { force: true }) }
tempRemoved(ok) == TRUE

\* git(repoRoot, ["checkout", target]) and, in patch mode, buildPatch and
\* writeFileSync(tempPatchPath, normalizedPatchText)
ApCheckoutTarget ==
  /\ pc = "ap_checkout_target"
  /\ \E ok \in MainCheckoutOutcomes(cur.repo, cur.target) :
       /\ main' = IF ok THEN MainAfterCheckout(cur.repo, cur.target) ELSE main
       /\ calls' = Append(calls, Call("checkout", "repo", cur.target, ok))
       /\ IF ~ok THEN Leave(loc, "CommandFailed", stdOut, errOut \cup Echo(ok))
          ELSE IF loc.mode = "merge" THEN
            SetCmd("ap_merge", "running", "none", stdOut, errOut) /\ loc' = loc
          ELSE IF loc.mode = "rebase" THEN
            SetCmd("rb_wk_checkout", "running", "none", stdOut, errOut)
            /\ loc' = loc
          ELSE IF ~IsCheckout(WkDir) THEN
            Leave(loc, "CommandFailed", stdOut, errOut)
          ELSE LET patchText == buildPatch(WkDir, loc.baseRef) IN
            IF patchIsEmpty(patchText)
            THEN Leave(loc, "none", stdOut \cup {"NoChanges"}, errOut)
            ELSE SetCmd("pt_apply", "running", "none", stdOut, errOut)
                 /\ loc' = [loc EXCEPT !.patch = normalizedPatchText(patchText)]
  /\ fsDirs' = IF pc' = "pt_apply"
               THEN fsDirs \cup {tempPatchPath(cur.name)} ELSE fsDirs
  /\ UNCHANGED <<refs, wts, nextCommit, cur, pre>>

\* The branch the main checkout is on moved to hist (a merge or a commit).
RefsAfterMove(r, hist) ==
  IF main[r].head = NoBranch THEN refs
  ELSE [refs EXCEPT ![r][main[r].head] = hist]

\* git(repoRoot, ["merge", "--no-ff"?, name]) and the return
ApMerge ==
  /\ pc = "ap_merge"
  /\ \E m \in GitMerge(cur.repo, cur.name,
                       IF cur.noFF THEN "--no-ff" ELSE "") :
       /\ refs' = RefsAfterMove(cur.repo, m.hist)
       /\ main' = [main EXCEPT ![cur.repo].tree.conflict = m.conflict]
       /\ nextCommit' = IF m.fresh THEN nextCommit + 1 ELSE nextCommit
       /\ calls' = Append(calls, Call(IF cur.noFF THEN "merge --no-ff"
                                      ELSE "merge", "repo", cur.name, m.ok))
       /\ IF m.ok
          THEN Leave(loc, "none", stdOut \cup {"AppliedMerge"}, errOut)
          ELSE Leave(loc, "CommandFailed", stdOut, errOut \cup Echo(m.ok))
  /\ UNCHANGED <<wts, fsDirs, cur, pre>>

\* git(wkDir, ["checkout", name])
RbWkCheckout ==
  /\ pc = "rb_wk_checkout"
  /\ \E ok \in WtCheckoutOutcomes(WkDir, cur.name) :
       /\ wts' = IF ok THEN WtsAfterCheckout(WkDir, cur.name) ELSE wts
       /\ calls' = Append(calls, Call("checkout", "worktree", cur.name, ok))
       /\ IF ok
          THEN SetCmd("rb_rebase", "running", "none", stdOut, errOut)
               /\ loc' = loc
          ELSE Leave(loc, "CommandFailed", stdOut, errOut \cup Echo(ok))
  /\ UNCHANGED <<main, refs, fsDirs, nextCommit, cur, pre>>

rebaseContinues_Always(ok) == TRUE

\* git() throws when the command failed: the statements after the rebase
\* run only when it succeeded.
rebaseContinues(ok) == ok

\* git(wkDir, ["rebase", target])
RbRebase ==
  /\ pc = "rb_rebase"
  /\ \E m \in GitRebase(WkDir, cur.target) :
       /\ refs' = [refs EXCEPT ![cur.repo][cur.name] = m.hist]
       /\ wts' = {IF v \in WtAt(WkDir) /\ m.conflict
                  THEN [v EXCEPT !.files = "conflict"] ELSE v : v \in wts}
       /\ nextCommit' = IF m.fresh THEN nextCommit + 1 ELSE nextCommit
       /\ calls' = Append(calls, Call("rebase", "worktree", cur.target, m.ok))
       /\ IF rebaseContinues(m.ok)
          THEN SetCmd("rb_checkout_target", "running", "none", stdOut, errOut)
               /\ loc' = loc
          ELSE Leave(loc, "CommandFailed", stdOut, errOut \cup Echo(m.ok))
  /\ UNCHANGED <<main, fsDirs, cur, pre>>

\* the second git(repoRoot, ["checkout", target])
RbCheckoutTarget ==
  /\ pc = "rb_checkout_target"
  /\ \E ok \in MainCheckoutOutcomes(cur.repo, cur.target) :
       /\ main' = IF ok THEN MainAfterCheckout(cur.repo, cur.target) ELSE main
       /\ calls' = Append(calls, Call("checkout", "repo", cur.target, ok))
       /\ IF ok
          THEN SetCmd("rb_ff", "running", "none", stdOut, errOut) /\ loc' = loc
          ELSE Leave(loc, "CommandFailed", stdOut, errOut \cup Echo(ok))
  /\ UNCHANGED <<refs, wts, fsDirs, nextCommit, cur, pre>>

\* git(repoRoot, ["merge", "--ff-only", name]) and the return
RbFastForward ==
  /\ pc = "rb_ff"
  /\ \E m \in GitMerge(cur.repo, cur.name, "--ff-only") :
       /\ refs' = RefsAfterMove(cur.repo, m.hist)
       /\ calls' = Append(calls, Call("merge --ff-only", "repo", cur.name, m.ok))
       /\ IF m.ok
          THEN Leave(loc, "none", stdOut \cup {"AppliedRebase"}, errOut)
          ELSE Leave(loc, "CommandFailed", stdOut, errOut \cup Echo(m.ok))
  /\ UNCHANGED <<main, wts, fsDirs, nextCommit, cur, pre>>

\* git(repoRoot, ["apply", "--index", tempPatchPath]) and the rmSync of the
\* finally block
PtApply ==
  /\ pc = "pt_apply"
  /\ \E ok \in BOOLEAN :
       /\ main' = IF ok THEN [main EXCEPT ![cur.repo].tree.staged = TRUE]
                  ELSE main
       /\ calls' = Append(calls, Call("apply --index", "repo", loc.patch, ok))
       /\ fsDirs' = IF tempRemoved(ok)
                    THEN fsDirs \ {tempPatchPath(cur.name)} ELSE fsDirs
       /\ IF ~ok THEN Leave(loc, "CommandFailed", stdOut, errOut \cup Echo(ok))
          ELSE IF cur.message \notin {Undefined, ""}
            THEN SetCmd("pt_commit", "running", "none", stdOut, errOut)
                 /\ loc' = loc
          ELSE Leave(loc, "none", stdOut \cup {"AppliedPatchStaged"}, errOut)
  /\ UNCHANGED <<refs, wts, nextCommit, cur, pre>>

\* git(repoRoot, ["commit", "-m", message])
PtCommit ==
  /\ pc = "pt_commit"
  /\ \E ok \in BOOLEAN :
       /\ refs' = IF ok
                  THEN RefsAfterMove(cur.repo, MainHist(cur.repo) \cup {nextCommit})
                  ELSE refs
       /\ main' = IF ok THEN [main EXCEPT ![cur.repo].tree.staged = FALSE]
                  ELSE main
       /\ nextCommit' = IF ok THEN nextCommit + 1 ELSE nextCommit
       /\ calls' = Append(calls, Call("commit", "repo", <<cur.message>>, ok))
       /\ IF ok
          THEN Leave(loc, "none", stdOut \cup {"AppliedPatchCommitted"}, errOut)
          ELSE Leave(loc, "CommandFailed", stdOut, errOut \cup Echo(ok))
  /\ UNCHANGED <<wts, fsDirs, cur, pre>>

\* the finally block: git(repoRoot, ["checkout", priorBranch], true), any
\* failure swallowed
ApRestore ==
  /\ pc = "ap_restore"
  /\ \E ok \in MainCheckoutOutcomes(cur.repo, loc.prior) :
       /\ main' = IF ok THEN MainAfterCheckout(cur.repo, loc.prior) ELSE main
       /\ calls' = Append(calls, QuietCall("checkout", "repo", loc.prior, ok))
  /\ SetCmd("idle", IF loc.pending = "none" THEN "ok" ELSE "error",
            loc.pending, stdOut, errOut)
  /\ UNCHANGED <<refs, wts, fsDirs, nextCommit, cur, loc, pre>>

\* -------------------------------------------------------------------- rm

RmArgs ==
  {[NoArgs EXCEPT !.cmd = "rm", !.name = n, !.repo = r, !.depot = d,
                  !.all = f[1], !.force = f[2], !.deleteBranch = f[3],
                  !.keepBranch = f[4]] :
     n \in NameArgs, r \in RepoArgs, d \in Depots, f \in [1..4 -> BOOLEAN]}

\* The "worktree <path>" lines of git worktree list --porcelain.
ListedPaths(r) == {RepoRoot(r)} \cup {w.path : w \in {v \in wts : v.repo = r}}

\* a.localeCompare(b) on the segments in use
SegRank(seg) ==
  CASE seg = "a" -> 1
    [] seg = "b" -> 2
    [] OTHER -> 3

RECURSIVE SortSegs_Descending(_)
SortSegs_Descending(S) ==
  IF S = {} THEN <<>>
  ELSE LET m == CHOOSE x \in S : \A y \in S : SegRank(x) >= SegRank(y)
       IN <<<<m>>>> \o SortSegs_Descending(S \ {m})

RECURSIVE SortSegs(_)
SortSegs(S) ==
  IF S = {} THEN <<>>
  ELSE LET m == CHOOSE x \in S : \A y \in S : SegRank(x) <= SegRank(y)
       IN <<<<m>>>> \o SortSegs(S \ {m})

UnderBase_NoPrefix(resolvedPath, baseDirResolved, repoRootResolved) ==
  resolvedPath # repoRootResolved

\* Whether a listed path, resolved, is one rm --all removes.
UnderBase(resolvedPath, baseDirResolved, repoRootResolved) ==
  /\ resolvedPath # repoRootResolved
  /\ IsPrefix(baseDirResolved, resolvedPath)
  /\ Len(resolvedPath) > Len(baseDirResolved)

\* The names rm --all removes, in order.
sortedNames(r, depot) ==
  LET baseDir == PathJoin(depot, <<repoIdFromRoot(RepoRoot(r))>>)
      baseDirResolved == realpathOrResolve(baseDir)
      repoRootResolved == realpathOrResolve(RepoRoot(r))
      resolved == {realpathOrResolve(q) : q \in ListedPaths(r)}
      names == {Basename(q) :
                  q \in {x \in resolved :
                           UnderBase(x, baseDirResolved, repoRootResolved)}}
  IN SortSegs(names \ {""})

rmUsage_Never(name, all) == FALSE

\* !name && !all
rmUsage(name, all) == name = NoName /\ ~all

\* cmdRm up to the first removal.
RmBegin(a) ==
  /\ pc = "idle"
  /\ status = "none"
  /\ cur' = a
  /\ pre' = Snapshot
  /\ calls' = <<>>
  /\ UNCHANGED world
  /\ IF rmUsage(a.name, a.all) THEN
       SetCmd("idle", "error", "UsageRm", {}, {}) /\ loc' = NoLoc
     ELSE IF a.repo \notin Repos THEN
       SetCmd("idle", "exit", "NotARepository", {}, {"NotARepository"})
       /\ loc' = NoLoc
     ELSE IF a.all THEN
       LET names == sortedNames(a.repo, a.depot) IN
       IF names = <<>>
       THEN SetCmd("idle", "ok", "none", {"NoWorktrees"}, {}) /\ loc' = NoLoc
       ELSE SetCmd("rm_remove", "running", "none", {}, {})
            /\ loc' = [NoLoc EXCEPT !.queue = names]
     ELSE SetCmd("rm_remove", "running", "none", {}, {})
          /\ loc' = [NoLoc EXCEPT !.queue = <<a.name>>]

\* The outcomes of git worktree remove dir [--force] run in repository r.
WorktreeRemoveOutcomes(r, dir, force) ==
  IF ~\E w \in WtAt(dir) : w.repo = r THEN {FALSE}
  ELSE IF (\E w \in WtAt(dir) : w.files # "clean") /\ ~force THEN {FALSE}
  ELSE {TRUE}

\* After one removeWorktree call returned: the next name, or the end.
RmNext(so, eo) ==
  IF Len(loc.queue) > 1
  THEN SetCmd("rm_remove", "running", "none", so, eo)
       /\ loc' = [loc EXCEPT !.queue = Tail(loc.queue)]
  ELSE SetCmd("idle", "ok", "none", so, eo) /\ loc' = loc

shouldDeleteBranch_IgnoresKeep(deleteBranch, keepBranch) == deleteBranch

\* deleteBranch && !keepBranch
shouldDeleteBranch(deleteBranch, keepBranch) == deleteBranch /\ ~keepBranch

\* removeWorktree up to and including git worktree remove and the cleanup
RmRemove ==
  /\ pc = "rm_remove"
  /\ LET n == Head(loc.queue)
         wkDir == worktreePath(cur.depot, RepoRoot(cur.repo), n)
     IN
     IF ~existsSync(wkDir) THEN
       /\ SetCmd("idle", "error", "NoWorktreeDirectory", stdOut, errOut)
       /\ UNCHANGED <<wts, fsDirs, calls, loc>>
     ELSE
       \E ok \in WorktreeRemoveOutcomes(cur.repo, wkDir, cur.force) :
         /\ calls' = Append(calls, Call(IF cur.force
                                        THEN "worktree remove --force"
                                        ELSE "worktree remove",
                                        "repo", wkDir, ok))
         /\ wts' = IF ok THEN wts \ WtAt(wkDir) ELSE wts
         /\ fsDirs' = IF ok THEN fsDirs \ {ResolveLinks(wkDir)} ELSE fsDirs
         /\ IF ~ok THEN
              SetCmd("idle", "error", "CommandFailed", stdOut,
                     errOut \cup Echo(ok))
              /\ loc' = loc
            ELSE IF shouldDeleteBranch(cur.deleteBranch, cur.keepBranch) THEN
              SetCmd("rm_branch", "running", "none", stdOut, errOut)
              /\ loc' = loc
            ELSE RmNext(stdOut \cup {"Removed"}, errOut)
  /\ UNCHANGED <<main, refs, nextCommit, cur, pre>>

BranchDeleteOutcomes(r, b) ==
  IF b \in DOMAIN refs[r] /\ main[r].head # b /\ ~InUseByWorktree(r, b, {})
  THEN {TRUE} ELSE {FALSE}

branchDeleteError_Propagates(ok) == IF ok THEN "none" ELSE "CommandFailed"

\* What the try/catch around git branch -D lets out: nothing.
branchDeleteError(ok) == "none"

branchToDelete_CheckedOut(worktreeName) ==
  LET dir == worktreePath(cur.depot, RepoRoot(cur.repo), worktreeName)
      was == {w \in pre.wts : ResolveLinks(w.path) = ResolveLinks(dir)}
  IN IF was = {} THEN worktreeName ELSE (CHOOSE w \in was : TRUE).head

\* The branch removeWorktree passes to git branch -D: the worktree's name.
branchToDelete(worktreeName) == worktreeName

\* git(repoRoot, ["branch", "-D", worktreeName]), a failure reported only
RmBranch ==
  /\ pc = "rm_branch"
  /\ LET b == branchToDelete(Head(loc.queue)) IN
     \E ok \in BranchDeleteOutcomes(cur.repo, b) :
       /\ calls' = Append(calls, Call("branch -D", "repo", b, ok))
       /\ refs' = IF ok
                  THEN [refs EXCEPT ![cur.repo] =
                          [x \in DOMAIN refs[cur.repo] \ {b} |-> refs[cur.repo][x]]]
                  ELSE refs
       /\ IF branchDeleteError(ok) = "none"
          THEN RmNext(stdOut \cup {IF ok THEN "RemovedAndDeletedBranch"
                                   ELSE "CouldNotDeleteBranch"},
                      errOut \cup Echo(ok))
          ELSE /\ SetCmd("idle", "error", branchDeleteError(ok), stdOut,
                         errOut \cup Echo(ok))
               /\ loc' = loc
  /\ UNCHANGED <<main, wts, fsDirs, nextCommit, cur, pre>>

\* ------------------------------------------------------------------- new

NewArgs ==
  {[NoArgs EXCEPT !.cmd = "new", !.name = n, !.repo = r, !.depot = d,
                  !.base = b, !.branch = br, !.noBranch = nb] :
     n \in NameArgs, r \in RepoArgs, d \in Depots, b \in BaseArgs,
     br \in BranchArgs, nb \in BOOLEAN}

Ancestors(p) == {SubSeq(p, 1, k) : k \in 1..Len(p)}

branchExists_Never(r, branch) == FALSE

\* git show-ref --verify --quiet refs/heads/<branch>
branchExists(r, branch) == branch \in DOMAIN refs[r]

alreadyExists_Never(present, wkDir) == FALSE

\* existsSync(wkDir), after ensureDir(path.dirname(wkDir))
alreadyExists(present, wkDir) == ResolveLinks(wkDir) \in present

\* The outcomes of git worktree add [-b branch] dir ref run in repository r:
\* the head of the new worktree, or failure.
WorktreeAddOutcomes(r, dir, newBranch, ref) ==
  IF WtAt(dir) # {} THEN {[ok |-> FALSE, head |-> NoBranch]}
  ELSE IF ref \notin DOMAIN refs[r] THEN {[ok |-> FALSE, head |-> NoBranch]}
  ELSE IF newBranch # NoBranch THEN
    IF newBranch \in DOMAIN refs[r] THEN {[ok |-> FALSE, head |-> NoBranch]}
    ELSE {[ok |-> TRUE, head |-> newBranch]}
  ELSE IF main[r].head = ref \/ InUseByWorktree(r, ref, {})
    THEN {[ok |-> FALSE, head |-> NoBranch]}
  ELSE {[ok |-> TRUE, head |-> ref]}

NewWorktree(r, path, head) ==
  [repo |-> r, path |-> path, head |-> head, at |-> {}, files |-> "clean"]

\* cmdNew
NewRun(a) ==
  /\ pc = "idle"
  /\ status = "none"
  /\ Cardinality(wts) < MaxWorktrees
  /\ cur' = a
  /\ pre' = Snapshot
  /\ loc' = NoLoc
  /\ UNCHANGED <<main, nextCommit>>
  /\ IF a.name = NoName THEN
       /\ SetCmd("idle", "error", "UsageNew", {}, {})
       /\ calls' = <<>>
       /\ UNCHANGED <<refs, wts, fsDirs>>
     ELSE IF a.repo \notin Repos THEN
       /\ SetCmd("idle", "exit", "NotARepository", {}, {"NotARepository"})
       /\ calls' = <<>>
       /\ UNCHANGED <<refs, wts, fsDirs>>
     ELSE
       LET wkDir == worktreePath(a.depot, RepoRoot(a.repo), a.name)
           ensured == fsDirs \cup Ancestors(ResolveLinks(Dirname(wkDir)))
           branch == IF a.branch = NoBranch THEN a.name ELSE a.branch
       IN
       IF alreadyExists(ensured, wkDir) THEN
         /\ SetCmd("idle", "error", "AlreadyExists", {}, {})
         /\ calls' = <<>>
         /\ fsDirs' = ensured
         /\ UNCHANGED <<refs, wts>>
       ELSE
         LET creates == ~a.noBranch /\ ~branchExists(a.repo, branch)
             ref == IF a.noBranch \/ creates THEN a.base ELSE branch
         IN
         \E o \in WorktreeAddOutcomes(a.repo, wkDir,
                                      IF creates THEN branch ELSE NoBranch, ref) :
         \E reg \in {wkDir, ResolveLinks(wkDir)} :
           /\ calls' = (IF a.noBranch THEN <<>>
                         ELSE <<QuietCall("show-ref", "repo", branch,
                                          branchExists(a.repo, branch))>>)
                        \o <<AddCall(wkDir, IF creates THEN branch
                                             ELSE NoBranch, ref, o.ok)>>
           /\ refs' = IF o.ok /\ creates
                      THEN [refs EXCEPT ![a.repo] =
                              (branch :> refs[a.repo][a.base]) @@ refs[a.repo]]
                      ELSE refs
           /\ wts' = IF o.ok THEN wts \cup {NewWorktree(a.repo, reg, o.head)}
                     ELSE wts
           /\ fsDirs' = IF o.ok THEN ensured \cup {ResolveLinks(wkDir)}
                        ELSE ensured
           /\ IF o.ok THEN SetCmd("idle", "ok", "none", {"Created"}, {})
              ELSE SetCmd("idle", "error", "CommandFailed", {}, Echo(o.ok))

\* ------------------------------------------------------------------ path

pathNotFound_Checked(wkDir) == ~existsSync(wkDir)

\* cmdPath never looks at the path it prints.
pathNotFound(wkDir) == FALSE

\* cmdPath
PathRun(a) ==
  /\ pc = "idle"
  /\ status = "none"
  /\ cur' = a
  /\ pre' = Snapshot
  /\ calls' = <<>>
  /\ UNCHANGED world
  /\ IF a.name = NoName THEN
       SetCmd("idle", "error", "UsagePath", {}, {}) /\ loc' = NoLoc
     ELSE IF a.repo \notin Repos THEN
       SetCmd("idle", "exit", "NotARepository", {}, {"NotARepository"})
       /\ loc' = NoLoc
     ELSE LET wkDir == worktreePath(a.depot, RepoRoot(a.repo), a.name) IN
       IF pathNotFound(wkDir) THEN
         SetCmd("idle", "error", "WorktreeNotFound", {}, {}) /\ loc' = NoLoc
       ELSE /\ SetCmd("idle", "ok", "none", {"Path"}, {})
            /\ loc' = [NoLoc EXCEPT !.printed = wkDir]

\* cmdList: git worktree list in the repository, output printed as it is.
ListRun(a) ==
  /\ pc = "idle"
  /\ status = "none"
  /\ cur' = a
  /\ pre' = Snapshot
  /\ loc' = NoLoc
  /\ UNCHANGED world
  /\ IF a.repo \notin Repos THEN
       /\ SetCmd("idle", "exit", "NotARepository", {}, {"NotARepository"})
       /\ calls' = <<>>
     ELSE /\ SetCmd("idle", "ok", "none", {"WorktreeList"}, {})
          /\ calls' = <<Call("worktree list", "repo", NoName, TRUE)>>

\* cmdPrune: git worktree prune drops the registrations whose directory is
\* gone.
PruneRun(a) ==
  /\ pc = "idle"
  /\ status = "none"
  /\ cur' = a
  /\ pre' = Snapshot
  /\ loc' = NoLoc
  /\ UNCHANGED <<main, refs, fsDirs, nextCommit>>
  /\ IF a.repo \notin Repos THEN
       /\ SetCmd("idle", "exit", "NotARepository", {}, {"NotARepository"})
       /\ calls' = <<>>
       /\ UNCHANGED wts
     ELSE /\ SetCmd("idle", "ok", "none", {"Pruned"}, {})
          /\ calls' = <<Call("worktree prune", "repo", NoName, TRUE)>>
          /\ wts' = {w \in wts : w.repo # a.repo \/ existsSync(w.path)}

\* runCommand, default: help() and then throw new Error("Unknown command").
UnknownRun(a) ==
  /\ pc = "idle"
  /\ status = "none"
  /\ cur' = a
  /\ pre' = Snapshot
  /\ loc' = NoLoc
  /\ calls' = <<>>
  /\ UNCHANGED world
  /\ SetCmd("idle", "error", "UnknownCommand", {"Help"}, {})

\* ------------------------------------------------- the user, outside wk

\* The process ended (index.ts: one command per process, nothing kept).
ProcessExit ==
  /\ pc = "idle"
  /\ status # "none"
  /\ cur' = NoArgs
  /\ loc' = NoLoc
  /\ calls' = <<>>
  /\ pre' = NoSnapshot
  /\ SetCmd("idle", "none", "none", {}, {})
  /\ UNCHANGED world

\* The user creates or cleans up uncommitted changes in the main checkout.
UserEditMain(r, d) ==
  /\ pc = "idle"
  /\ status = "none"
  /\ main[r].tree # [CleanTree EXCEPT !.dirty = d]
  /\ main' = [main EXCEPT ![r].tree = [CleanTree EXCEPT !.dirty = d]]
  /\ UNCHANGED cmdvars
  /\ UNCHANGED <<refs, wts, fsDirs, nextCommit>>

\* The user checks out a branch (or detaches HEAD) in the main checkout.
UserCheckoutMain(r, b) ==
  /\ pc = "idle"
  /\ status = "none"
  /\ main[r].head # b
  /\ IF b = NoBranch
     THEN main' = [main EXCEPT ![r].head = NoBranch, ![r].at = MainHist(r)]
     ELSE /\ b \in DOMAIN refs[r]
          /\ TRUE \in MainCheckoutOutcomes(r, b)
          /\ main' = MainAfterCheckout(r, b)
  /\ UNCHANGED cmdvars
  /\ UNCHANGED <<refs, wts, fsDirs, nextCommit>>

\* The user commits on the branch of the main checkout.
UserCommitMain(r) ==
  /\ pc = "idle"
  /\ status = "none"
  /\ nextCommit <= MaxCommits
  /\ main[r].head # NoBranch
  /\ ~main[r].tree.conflict
  /\ refs' = RefsAfterMove(r, MainHist(r) \cup {nextCommit})
  /\ nextCommit' = nextCommit + 1
  /\ UNCHANGED cmdvars
  /\ UNCHANGED <<main, wts, fsDirs>>

\* The user commits on the branch of a linked worktree.
UserCommitWt(w) ==
  /\ pc = "idle"
  /\ status = "none"
  /\ nextCommit <= MaxCommits
  /\ w.head # NoBranch
  /\ w.files = "clean"
  /\ ResolveLinks(w.path) \in fsDirs
  /\ refs' = [refs EXCEPT ![w.repo][w.head] = @ \cup {nextCommit}]
  /\ nextCommit' = nextCommit + 1
  /\ UNCHANGED cmdvars
  /\ UNCHANGED <<main, wts, fsDirs>>

\* The user edits, stages or cleans files in a linked worktree.
UserEditWt(w, f) ==
  /\ pc = "idle"
  /\ status = "none"
  /\ w.files # f
  /\ f # "conflict"
  /\ ResolveLinks(w.path) \in fsDirs
  /\ wts' = (wts \ {w}) \cup {[w EXCEPT !.files = f]}
  /\ UNCHANGED cmdvars
  /\ UNCHANGED <<main, refs, fsDirs, nextCommit>>

\* The user deletes the directory of a linked worktree by hand.
UserRemoveDir(w) ==
  /\ pc = "idle"
  /\ status = "none"
  /\ ResolveLinks(w.path) \in fsDirs
  /\ fsDirs' = fsDirs \ {ResolveLinks(w.path)}
  /\ UNCHANGED cmdvars
  /\ UNCHANGED <<main, refs, wts, nextCommit>>

\* The user runs git worktree add --detach outside the depot.
UserWorktreeAdd(r, path) ==
  /\ pc = "idle"
  /\ status = "none"
  /\ Cardinality(wts) < MaxWorktrees
  /\ WtAt(path) = {}
  /\ path \notin fsDirs
  /\ wts' = wts \cup {[NewWorktree(r, path, NoBranch) EXCEPT !.at = MainHist(r)]}
  /\ fsDirs' = fsDirs \cup {path}
  /\ UNCHANGED cmdvars
  /\ UNCHANGED <<main, refs, nextCommit>>

\* The user creates a branch at the commit of the main checkout.
UserBranch(r, b) ==
  /\ pc = "idle"
  /\ status = "none"
  /\ b \notin DOMAIN refs[r]
  /\ refs' = [refs EXCEPT ![r] = (b :> MainHist(r)) @@ refs[r]]
  /\ UNCHANGED cmdvars
  /\ UNCHANGED <<main, wts, fsDirs, nextCommit>>

\* ------------------------------------------------------- specifications

\* apply, on one repository with the worktree a.
ApplyNewArgs ==
  {a \in NewArgs : /\ a.name = <<"a">> /\ a.repo = "r1"
                   /\ a.depot = <<"depot">>
                   /\ a.noBranch => a.branch = NoBranch}

Next ==
  \/ ProcessExit
  \/ \E a \in ApplyRunArgs : ApplyBegin(a)
  \/ SwDetach
  \/ SwCheckout
  \/ ApCheckoutTarget
  \/ ApMerge
  \/ RbWkCheckout
  \/ RbRebase
  \/ RbCheckoutTarget
  \/ RbFastForward
  \/ PtApply
  \/ PtCommit
  \/ ApRestore
  \/ \E a \in ApplyNewArgs : NewRun(a)
  \/ \E d \in BOOLEAN : UserEditMain("r1", d)
  \/ \E b \in Targets \cup {NoBranch} : UserCheckoutMain("r1", b)
  \/ \E b \in {Dev} : UserBranch("r1", b)
  \/ UserCommitMain("r1")
  \/ \E w \in wts : UserCommitWt(w)
  \/ \E w \in wts, f \in WkFiles : UserEditWt(w, f)

Spec == Init /\ [][Next]_vars

\* rm on r1, while r1 and r2 share the depot.
\* rm on one repository; with --all at most the name a.
RmRunArgs ==
  {a \in RmArgs : /\ a.repo = "r1"
                  /\ a.all => a.name \in {NoName, <<"a">>}}
RmNewArgs ==
  {a \in NewArgs : /\ a.name # NoName
                   /\ ~a.noBranch
                   /\ (a.repo = "r1" \/ a.name = <<"a">>)
                   /\ a.branch # NoBranch =>
                        (a.repo = "r1" /\ a.name = <<"a">>
                         /\ a.depot = <<"depot">>)
                   /\ a.depot # <<"depot">> =>
                        (a.repo = "r1" /\ a.name = <<"a">>)}

NextRm ==
  \/ ProcessExit
  \/ \E a \in RmRunArgs : RmBegin(a)
  \/ RmRemove
  \/ RmBranch
  \/ \E a \in RmNewArgs : NewRun(a)
  \/ \E w \in wts, f \in {"clean", "untracked"} : UserEditWt(w, f)
  \/ \E w \in wts : UserRemoveDir(w)
  \/ \E path \in Elsewhere : UserWorktreeAdd("r1", path)

SpecRm == Init /\ [][NextRm]_vars

\* Every command on its plain command line, inside and outside a repository.
CliRepoArgs == {"r1", "nowhere"}

\* The command words of the command lines.
Commands ==
  {"new", "add", "list", "path", "rm", "remove", "apply", "prune",
   "New", "status"}

runCommand_IgnoreCase(command) ==
  CASE command \in {"new", "add", "New"} -> "new"
    [] command \in {"rm", "remove"} -> "rm"
    [] command \in {"list", "path", "apply", "prune"} -> command
    [] OTHER -> "unknown"

\* runCommand: the operation a command word selects.
runCommand(command) ==
  CASE command = "new" -> "new"
    [] command = "add" -> "new"
    [] command = "list" -> "list"
    [] command = "path" -> "path"
    [] command = "rm" -> "rm"
    [] command = "remove" -> "rm"
    [] command = "apply" -> "apply"
    [] command = "prune" -> "prune"
    [] OTHER -> "unknown"

CliArgs(cmd) ==
  {[NoArgs EXCEPT !.cmd = cmd, !.name = n, !.repo = r, !.depot = d,
                  !.all = al, !.sw = s] :
     n \in {<<"a">>, <<"f", "a">>, NoName}
            \cup (IF cmd = "path" THEN {<<"..", "x">>} ELSE {}),
     r \in CliRepoArgs, d \in Depots,
     al \in IF cmd = "rm" THEN BOOLEAN ELSE {FALSE},
     s \in IF cmd = "apply" THEN BOOLEAN ELSE {FALSE}}

\* runCommand(command, args): the switch over the command word.
RunCommand(command) ==
  LET cmd == runCommand(command) IN
  \E args0 \in CliArgs(cmd) :
    LET a == [args0 EXCEPT !.command = command] IN
    CASE cmd = "new" -> NewRun(a)
      [] cmd = "list" -> ListRun(a)
      [] cmd = "path" -> PathRun(a)
      [] cmd = "rm" -> RmBegin(a)
      [] cmd = "apply" -> ApplyBegin(a)
      [] cmd = "prune" -> PruneRun(a)
      [] OTHER -> UnknownRun(a)

NextCli ==
  \/ ProcessExit
  \/ \E command \in Commands : RunCommand(command)
  \/ RmRemove
  \/ SwDetach
  \/ SwCheckout
  \/ ApCheckoutTarget
  \/ ApMerge
  \/ ApRestore
  \/ \E w \in wts : UserRemoveDir(w)

SpecCli == Init /\ [][NextCli]_vars

\* index.ts: const args = parseCliArgs(process.argv.slice(2))
ParseArgv(v) ==
  /\ argv = <<>>
  /\ argv' = v
  /\ args' = parseCliArgs(v)
  /\ UNCHANGED <<main, refs, wts, fsDirs, nextCommit,
                 pc, cur, loc, calls, errOut, stdOut, status, err, pre>>

NextArgs == \E v \in ArgVecs : ParseArgv(v)

SpecArgs == Init /\ [][NextArgs]_vars

\* ----------------------------------------------------------------- claims

TreeDirty(t) == t.dirty \/ t.staged \/ t.conflict

\* The worktree of the command, as it was when the command started.
PreWt == {w \in pre.wts : ResolveLinks(w.path) = ResolveLinks(WkDir)}

PreWtBranch ==
  IF PreWt = {} THEN NoBranch
  ELSE LET w == CHOOSE x \in PreWt : TRUE IN
       IF w.files = "conflict" THEN NoBranch ELSE w.head

\* apply was given a name whose worktree directory existed.
AppliedTo ==
  /\ cur.cmd = "apply"
  /\ cur.name # NoName
  /\ ResolveLinks(WkDir) \in pre.fsDirs

PreMainDirty == TreeDirty(pre.main[cur.repo].tree)

IsSwitchCall(c) ==
  \/ c = Call("checkout --detach", "worktree", NoBranch, TRUE)
  \/ \E ok \in BOOLEAN : c = Call("checkout", "repo", cur.name, ok)

\* C1: apply <name> --switch (worktree <name> present) on a main repository
\* with any uncommitted change, untracked files included, writes the warning
\* to error output, raises "Aborting apply --switch with dirty repo." and
\* issues no git call that changes state: the main repository's branch and
\* the worktree's HEAD are as before.
C1_SwitchDirtyAborts ==
  (AppliedTo /\ cur.sw /\ PreMainDirty) =>
    /\ pc = "idle"
    /\ status = "error"
    /\ err = "AbortSwitchDirty"
    /\ "WarnSwitchDirty" \in errOut
    /\ calls = <<>>
    /\ main = pre.main
    /\ wts = pre.wts
    /\ refs = pre.refs

C1_Witness ==
  /\ AppliedTo
  /\ cur.sw
  /\ pre.main[cur.repo].tree = [CleanTree EXCEPT !.dirty = TRUE]
  /\ err = "AbortSwitchDirty"
  /\ main[cur.repo].head = Dev
  /\ PreWtBranch = cur.name

\* Branch <name> exists and only the worktree <name> (no rebase under way in
\* it) may have it checked out.
BranchFree ==
  /\ cur.name \in DOMAIN pre.refs[cur.repo]
  /\ \A w \in pre.wts :
       (w.repo = cur.repo /\ w.head = cur.name) =>
         (w \in PreWt /\ w.files # "conflict")

\* C2 as stated: apply <name> --switch on a clean main repository whose
\* worktree <name> exists ends successfully with the main repository on
\* branch <name>.
C2_Original ==
  (AppliedTo /\ cur.sw /\ ~PreMainDirty /\ PreWt # {} /\ pc = "idle") =>
    (status = "ok" /\ main[cur.repo].head = cur.name)

\* C2, amended: apply <name> --switch on a clean main repository whose
\* worktree <name> exists ends successfully with the main repository on
\* branch <name>, whatever branch it was on before, when a local branch
\* <name> exists and no checkout other than the worktree <name> (with no
\* rebase under way) holds it; otherwise the checkout fails, the command
\* raises and the main repository stays on its branch.
C2_SwitchChecksOut ==
  (AppliedTo /\ cur.sw /\ ~PreMainDirty /\ PreWt # {} /\ pc = "idle") =>
    IF BranchFree
    THEN /\ status = "ok"
         /\ main[cur.repo].head = cur.name
         /\ "AppliedSwitch" \in stdOut
    ELSE /\ status = "error"
         /\ err = "CommandFailed"
         /\ main[cur.repo].head = pre.main[cur.repo].head

C2_Witness ==
  /\ AppliedTo
  /\ cur.sw
  /\ ~PreMainDirty
  /\ pre.main[cur.repo].head = Dev
  /\ PreWtBranch = cur.name
  /\ status = "ok"
  /\ main[cur.repo].head = cur.name

\* C3: in apply --switch on a clean repository, when the worktree is on
\* branch <name> its HEAD is detached first and <name> is checked out in the
\* main repository only after that; when it is on another branch or
\* detached, no detach is issued; and in no state is <name> checked out in
\* both the worktree and the main repository.
C3_DetachBeforeCheckout ==
  (AppliedTo /\ cur.sw /\ ~PreMainDirty) =>
    /\ IF PreWtBranch = cur.name
       THEN \/ calls = <<>> /\ pc = "sw_detach"
            \/ /\ Len(calls) >= 1
               /\ calls[1] = Call("checkout --detach", "worktree", NoBranch, TRUE)
               /\ \A i \in 2..Len(calls) :
                    calls[i].op = "checkout" /\ calls[i].in = "repo"
                    /\ calls[i].arg = cur.name
       ELSE \A i \in 1..Len(calls) : calls[i].op # "checkout --detach"
    /\ ~(/\ main[cur.repo].head = cur.name
         /\ \E w \in wts : w.repo = cur.repo /\ w.head = cur.name)

C3_Witness ==
  /\ AppliedTo
  /\ cur.sw
  /\ PreWtBranch = cur.name
  /\ Len(calls) = 2
  /\ calls[1].op = "checkout --detach"
  /\ calls[2] = Call("checkout", "repo", cur.name, TRUE)
  /\ main[cur.repo].head = cur.name
  /\ \A w \in wts : w.head = NoBranch

\* C4: with --switch, apply returns after the switch logic whatever the
\* other flags are: the only git calls are the detach in the worktree and
\* the checkout of <name> in the main repository; no mode is resolved, no
\* prior branch recorded, no patch built, no branch moved.
C4_SwitchReturns ==
  (cur.cmd = "apply" /\ cur.sw) =>
    /\ pc \in {"idle", "sw_detach", "sw_checkout"}
    /\ loc = NoLoc
    /\ refs = pre.refs
    /\ Len(calls) <= 2
    /\ \A i \in 1..Len(calls) : IsSwitchCall(calls[i])

C4_Witness ==
  /\ cur.cmd = "apply"
  /\ cur.sw /\ cur.merge /\ cur.rebase /\ cur.patch /\ cur.noFF
  /\ cur.message = "msg"
  /\ cur.target = Dev
  /\ pre.main[cur.repo].head = Main
  /\ status = "ok"
  /\ main[cur.repo].head = cur.name

\* C5: resolveApplyMode returns patch if patch is set, else rebase if rebase
\* is set, else merge, for all eight combinations of the three flags, and
\* this is the mode apply runs in.
C5_ModePrecedence ==
  /\ \A m \in BOOLEAN, r \in BOOLEAN, p \in BOOLEAN :
       resolveApplyMode(m, r, p) =
         IF p THEN "patch" ELSE IF r THEN "rebase" ELSE "merge"
  /\ (cur.cmd = "apply" /\ loc.mode # "none") =>
       loc.mode = IF cur.patch THEN "patch"
                  ELSE IF cur.rebase THEN "rebase" ELSE "merge"

C5_Witness ==
  /\ cur.cmd = "apply"
  /\ cur.merge /\ cur.rebase /\ cur.patch
  /\ loc.mode = "patch"
  /\ pc = "pt_apply"

\* C6: apply in merge mode (the default) or rebase mode on a main repository
\* with uncommitted changes fails with "Main repo has uncommitted changes.
\* ..." before any checkout, merge or rebase is issued: the main repository,
\* its branches and the worktree are left as they were.
C6_DirtyMainRejected ==
  (AppliedTo /\ ~cur.sw /\ ~cur.patch /\ PreMainDirty) =>
    /\ pc = "idle"
    /\ status = "error"
    /\ err = "MainDirty"
    /\ calls = <<>>
    /\ main = pre.main
    /\ wts = pre.wts
    /\ refs = pre.refs

C6_Witness ==
  /\ AppliedTo
  /\ ~cur.sw /\ ~cur.patch /\ cur.rebase
  /\ PreMainDirty
  /\ err = "MainDirty"
  /\ pre.main[cur.repo].head # cur.target

\* C7: apply --patch does not require a clean main repository: on a dirty
\* main repository it never raises the uncommitted-changes error, and when
\* the worktree's non-empty diff applies and no --message is given the
\* command succeeds, the changes are staged in the main repository's index,
\* no commit is issued and no branch moves.
C7_PatchOnDirtyMain ==
  (AppliedTo /\ ~cur.sw /\ cur.patch /\ PreMainDirty) =>
    /\ err # "MainDirty"
    /\ (/\ pc = "idle"
        /\ cur.message = Undefined
        /\ \E i \in 1..Len(calls) :
             calls[i].op = "apply --index" /\ calls[i].ok) =>
         /\ status = "ok"
         /\ "AppliedPatchStaged" \in stdOut
         /\ main[cur.repo].tree.staged
         /\ \A i \in 1..Len(calls) : calls[i].op # "commit"
         /\ \A i \in 1..Len(calls) :
              calls[i].op = "apply --index" => calls[i].arg # <<>>
         /\ refs = pre.refs

C7_Witness ==
  /\ AppliedTo
  /\ ~cur.sw /\ cur.patch
  /\ pre.main[cur.repo].tree = [CleanTree EXCEPT !.dirty = TRUE]
  /\ cur.message = Undefined
  /\ status = "ok"
  /\ Len(calls) = 2
  /\ calls[2].op = "apply --index" /\ calls[2].ok
  /\ main[cur.repo].tree.staged

\* The branch the main repository was on when the command started.
PrePrior == pre.main[cur.repo].head

\* C8: in a non-switch apply that reached the checkout of the target, the
\* checkout of the prior branch is attempted, as the last git call and
\* quietly, if and only if the main repository was on a branch and that
\* branch differs from target; the command succeeds exactly when every call
\* before the restoration succeeded, a failed restoration changing nothing.
C8_RestoreIffPriorDiffers ==
  (cur.cmd = "apply" /\ ~cur.sw /\ Len(calls) >= 1) =>
    LET n == Len(calls)
        need == PrePrior # NoBranch /\ PrePrior # cur.target
    IN  /\ \A i \in 1..(n - 1) : ~calls[i].quiet
        /\ calls[1].op = "checkout" /\ calls[1].arg = cur.target
        /\ calls[n].quiet =>
             /\ pc = "idle"
             /\ calls[n].op = "checkout"
             /\ calls[n].in = "repo"
             /\ calls[n].arg = PrePrior
        /\ pc = "idle" =>
             /\ need <=> calls[n].quiet
             /\ status \in {"ok", "error"}
             /\ status = "ok" <=>
                  \A i \in 1..n : calls[i].quiet \/ calls[i].ok
             /\ status = "error" => err = "CommandFailed"

C8_Witness ==
  /\ cur.cmd = "apply" /\ ~cur.sw
  /\ pc = "idle"
  /\ status = "ok"
  /\ Len(calls) >= 2
  /\ calls[Len(calls)].quiet
  /\ ~calls[Len(calls)].ok
  /\ main[cur.repo].head = cur.target
  /\ PrePrior # cur.target

\* The canonical directory depot/<repo-id> of the command's repository.
BaseCanon ==
  ResolveLinks(PathJoin(cur.depot, <<repoIdFromRoot(RepoRoot(cur.repo))>>))

\* Whether a path, made canonical, lies under depot/<repo-id>.
IsNested(path) ==
  LET q == ResolveLinks(path) IN
  /\ q # RepoRoot(cur.repo)
  /\ IsPrefix(BaseCanon, q)
  /\ Len(q) > Len(BaseCanon)

RmAllDone ==
  /\ cur.cmd = "rm"
  /\ cur.all
  /\ pc = "idle"
  /\ status = "ok"

IsRemoveCall(c) == c.op \in {"worktree remove", "worktree remove --force"}

\* C9: after rm --all completes successfully on a repository all of whose
\* worktrees are directories under depot/<repo-id>, every one of them has
\* been removed and the listing has one entry, the repository itself.
C9_AllRemoved ==
  (/\ RmAllDone
   /\ \A w \in pre.wts :
        w.repo = cur.repo =>
          (IsNested(w.path) /\ ResolveLinks(w.path) \in pre.fsDirs)) =>
    /\ \A w \in pre.wts : w.repo = cur.repo => w \notin wts
    /\ ListedPaths(cur.repo) = {RepoRoot(cur.repo)}

\* C10: rm --all only removes worktrees registered to the resolved
\* repository whose canonical path lies under the canonical depot/<repo-id>:
\* every name it queues is the last segment of such a worktree, every path
\* passed to worktree-remove lies under that directory, and the repository
\* root, its worktrees elsewhere and the worktrees of other repositories
\* stay registered.
C10_OnlyNamespaceRemoved ==
  (cur.cmd = "rm" /\ cur.all /\ cur.repo \in Repos) =>
    /\ \A i \in 1..Len(loc.queue) :
         \E w \in pre.wts :
           /\ w.repo = cur.repo
           /\ IsNested(w.path)
           /\ loc.queue[i] = <<Basename(ResolveLinks(w.path))>>
    /\ \A i \in 1..Len(calls) :
         IsRemoveCall(calls[i]) =>
           /\ IsNested(calls[i].arg)
           /\ calls[i].ok =>
                \E w \in pre.wts :
                  /\ w.repo = cur.repo
                  /\ ResolveLinks(w.path) = ResolveLinks(calls[i].arg)
    /\ \A w \in pre.wts :
         (w.repo # cur.repo \/ ~IsNested(w.path)) => w \in wts
    /\ main = pre.main

C10_Witness ==
  /\ RmAllDone
  /\ Len(calls) >= 1
  /\ calls[1].ok
  /\ \E w \in wts : w.repo = cur.repo /\ w.path \in Elsewhere
  /\ \A w \in wts : w \in pre.wts
  /\ Cardinality(pre.wts) = Cardinality(wts) + 1

\* C11: rm issues git branch -D for a removed worktree if and only if
\* --delete-branch is set and --keep-branch is not: each successful
\* worktree-remove is followed at once by the branch deletion in that case
\* and by none otherwise, and without a deletion the branches are the ones
\* that existed before rm.
C11_BranchDeletedIffAsked ==
  (cur.cmd = "rm") =>
    LET asked == cur.deleteBranch /\ ~cur.keepBranch IN
    /\ \A i \in 1..Len(calls) :
         (IsRemoveCall(calls[i]) /\ calls[i].ok) =>
           (asked <=> IF i < Len(calls) THEN calls[i + 1].op = "branch -D"
                      ELSE pc = "rm_branch")
    /\ \A i \in 1..Len(calls) :
         calls[i].op = "branch -D" =>
           /\ asked
           /\ i > 1
           /\ IsRemoveCall(calls[i - 1]) /\ calls[i - 1].ok
    /\ ~asked => refs = pre.refs

C11_Witness ==
  /\ cur.cmd = "rm"
  /\ cur.deleteBranch /\ cur.keepBranch
  /\ status = "ok"
  /\ Len(calls) = 1
  /\ IsRemoveCall(calls[1]) /\ calls[1].ok
  /\ cur.name \in DOMAIN refs[cur.repo]
  /\ wts # pre.wts

\* A git branch -D issued by rm that failed.
FailedDelete(i) ==
  /\ i \in 2..Len(calls)
  /\ calls[i].op = "branch -D"
  /\ ~calls[i].ok

\* C12: when rm --delete-branch has removed a worktree and git branch -D
\* then fails, the failure is not raised: rm prints the "could not delete
\* branch" message, the worktree stays removed, and the command goes on to
\* the next worktree of rm --all or ends successfully; an error raised later
\* comes from a later worktree.
C12_DeleteFailureReported ==
  (cur.cmd = "rm") =>
    \A i \in 1..Len(calls) :
      FailedDelete(i) =>
        /\ "CouldNotDeleteBranch" \in stdOut
        /\ WtAt(calls[i - 1].arg) = {}
        /\ ~existsSync(calls[i - 1].arg)
        /\ i = Len(calls) =>
             \/ pc = "idle" /\ status = "ok"
             \/ /\ pc \in {"rm_remove", "idle"}
                /\ pc = "idle" =>
                     (status = "error" /\ err = "NoWorktreeDirectory")
                /\ cur.all
                /\ worktreePath(cur.depot, RepoRoot(cur.repo),
                                Head(loc.queue)) # calls[i - 1].arg
        /\ i < Len(calls) => (cur.all /\ IsRemoveCall(calls[i + 1]))

C12_Witness ==
  /\ cur.cmd = "rm"
  /\ cur.all
  /\ FailedDelete(2)
  /\ Len(calls) = 4
  /\ IsRemoveCall(calls[3]) /\ calls[3].ok
  /\ calls[4].op = "branch -D" /\ calls[4].ok
  /\ status = "ok"
  /\ {w \in wts : w.repo = cur.repo} = {}

\* The branch new works with: the --branch value, else the name.
NewBranchArg == IF cur.branch = NoBranch THEN cur.name ELSE cur.branch

NewAdded ==
  /\ cur.cmd = "new"
  /\ calls # <<>>

\* C13: new <name> [base] issues exactly one worktree-add: with --no-branch
\* it adds the worktree at base, with no probe and no -b; otherwise it
\* probes the branch (--branch value, else <name>) quietly, adds the
\* worktree on that branch when it existed (no -b, base not used) and with
\* -b <branch> from base when it did not, a failed probe being no error.
C13_NewAddForm ==
  NewAdded =>
    LET n == Len(calls)
        add == calls[n]
        existed == NewBranchArg \in DOMAIN pre.refs[cur.repo]
    IN  /\ add.op \in {"worktree add", "worktree add -b"}
        /\ add.arg = worktreePath(cur.depot, RepoRoot(cur.repo), cur.name)
        /\ \A i \in 1..(n - 1) : calls[i].op = "show-ref"
        /\ IF cur.noBranch
           THEN /\ n = 1
                /\ add.branch = NoBranch
                /\ add.ref = cur.base
                /\ refs = pre.refs
           ELSE /\ n = 2
                /\ calls[1] = QuietCall("show-ref", "repo", NewBranchArg,
                                        existed)
                /\ IF existed
                   THEN /\ add.branch = NoBranch
                        /\ add.ref = NewBranchArg
                        /\ refs = pre.refs
                   ELSE /\ add.branch = NewBranchArg
                        /\ add.ref = cur.base
                        /\ err # "CommandFailed" =>
                             /\ status = "ok"
                             /\ DOMAIN refs[cur.repo] =
                                  DOMAIN pre.refs[cur.repo] \cup {NewBranchArg}
        /\ errOut # {} => ~add.ok

C13_Witness ==
  /\ NewAdded
  /\ ~cur.noBranch
  /\ cur.branch = Dev
  /\ Dev \in DOMAIN pre.refs[cur.repo]
  /\ calls[1] = QuietCall("show-ref", "repo", Dev, TRUE)
  /\ calls[2].ok
  /\ calls[2].branch = NoBranch
  /\ \E w \in wts : w.head = Dev

\* C14: new <name> fails with the "already exists" error when the computed
\* worktree path exists, issuing no branch probe and no worktree-add: the
\* worktrees and branches are unchanged.
C14_NewAlreadyExists ==
  (/\ cur.cmd = "new"
   /\ cur.name # NoName
   /\ cur.repo \in Repos
   /\ ResolveLinks(worktreePath(cur.depot, RepoRoot(cur.repo), cur.name))
        \in pre.fsDirs) =>
    /\ status = "error"
    /\ err = "AlreadyExists"
    /\ calls = <<>>
    /\ wts = pre.wts
    /\ refs = pre.refs
    /\ main = pre.main

C14_Witness ==
  /\ cur.cmd = "new"
  /\ err = "AlreadyExists"
  /\ cur.branch = Dev
  /\ Dev \notin DOMAIN refs[cur.repo]
  /\ wts # {}

\* The worktree directory of the command, as the command computes it.
CurDir == worktreePath(cur.depot, RepoRoot(cur.repo), cur.name)

\* The command has a name, runs in a repository, and the worktree directory
\* was absent when it started.
DirAbsent ==
  /\ cur.name # NoName
  /\ cur.repo \in Repos
  /\ ResolveLinks(CurDir) \notin pre.fsDirs

\* C15: path <name> in a repository prints exactly
\* worktreePath(depot, root, name) and succeeds whether or not a directory
\* exists there; it issues no git call and changes nothing.
C15_PathPrints ==
  (cur.cmd = "path" /\ cur.name # NoName /\ cur.repo \in Repos) =>
    /\ status = "ok"
    /\ loc.printed =
         PathJoin(cur.depot,
                  <<repoIdFromRoot(RepoRoot(cur.repo))>> \o cur.name)
    /\ stdOut = {"Path"}
    /\ errOut = {}
    /\ calls = <<>>
    /\ fsDirs = pre.fsDirs /\ wts = pre.wts

C15_Witness ==
  /\ cur.cmd = "path"
  /\ DirAbsent
  /\ cur.name = <<"f", "a">>
  /\ cur.depot = <<"dlink">>
  /\ status = "ok"
  /\ loc.printed = <<"dlink", "r1-h1", "f", "a">>
  /\ wts # {}

\* C16 as stated: path <name>, rm <name> and apply <name> each end in a
\* not-found error, before any state-changing git call, when the worktree
\* directory for <name> is absent.
C16_Original ==
  (/\ cur.cmd \in {"path", "rm", "apply"}
   /\ ~cur.all
   /\ DirAbsent) =>
    /\ status = "error"
    /\ err \in {"WorktreeNotFound", "NoWorktreeDirectory"}
    /\ calls = <<>>

\* C16, amended: rm <name> and apply <name> (in every mode, --switch
\* included) end in a not-found error raised before any state-changing git
\* call when the worktree directory for <name> is absent; path <name> does
\* not look at the directory: it prints the path and succeeds.
C16_NotFound ==
  (~cur.all /\ DirAbsent) =>
    /\ cur.cmd = "apply" =>
         /\ pc = "idle" /\ status = "error" /\ err = "WorktreeNotFound"
    /\ cur.cmd = "rm" =>
         /\ pc \in {"rm_remove", "idle"}
         /\ pc = "idle" => (status = "error" /\ err = "NoWorktreeDirectory")
    /\ cur.cmd = "path" => (status = "ok" /\ stdOut = {"Path"})
    /\ cur.cmd \in {"apply", "rm", "path"} =>
         /\ calls = <<>>
         /\ main = pre.main /\ refs = pre.refs /\ wts = pre.wts
         /\ fsDirs = pre.fsDirs

C16_Witness ==
  /\ cur.cmd = "rm"
  /\ ~cur.all
  /\ DirAbsent
  /\ err = "NoWorktreeDirectory"
  /\ \E w \in wts : ResolveLinks(w.path) = ResolveLinks(CurDir)

\* C17: new, path and apply without <name>, and rm with neither <name> nor
\* --all, raise the usage error before any git call, the resolution of the
\* repository root included: outside a repository the error is still the
\* usage error, and nothing changes.
C17_UsageFirst ==
  (/\ cur.cmd \in {"new", "path", "apply", "rm"}
   /\ cur.name = NoName
   /\ ~cur.all) =>
    /\ pc = "idle"
    /\ status = "error"
    /\ err = CASE cur.cmd = "new" -> "UsageNew"
               [] cur.cmd = "path" -> "UsagePath"
               [] cur.cmd = "apply" -> "UsageApply"
               [] OTHER -> "UsageRm"
    /\ calls = <<>>
    /\ errOut = {}
    /\ main = pre.main /\ refs = pre.refs /\ wts = pre.wts
    /\ fsDirs = pre.fsDirs

C17_Witness ==
  /\ cur.cmd = "rm"
  /\ cur.name = NoName
  /\ ~cur.all
  /\ cur.repo \notin Repos
  /\ err = "UsageRm"
  /\ wts # {}

\* C18: worktreePath(d, r, n) equals join(d, repoIdentity(r), n), and for
\* every name n, names with a separator or ".." included, the path is a
\* direct child of d/repoIdentity(r): two names change the last segment only.
C18_DirectChild ==
  (cur.cmd = "path" /\ status = "ok") =>
    LET base == PathJoin(cur.depot, <<repoIdFromRoot(RepoRoot(cur.repo))>>)
    IN  /\ loc.printed = PathJoin(base, cur.name)
        /\ Dirname(loc.printed) = base
        /\ Len(loc.printed) = Len(base) + 1

\* The index of the first "--" of argv, 0 when there is none.
FirstDashDash ==
  LET idx == {i \in 1..Len(argv) : argv[i] = DashDash}
  IN IF idx = {} THEN 0 ELSE CHOOSE i \in idx : \A j \in idx : i <= j

\* C19: parseCliArgs: for every argument vector, every token after the
\* first "--" becomes a positional, in order, and sets no flag, and the "--"
\* itself is neither a positional nor a flag: the result is that of the
\* tokens before the "--" with the tokens after it appended as positionals.
C19_TerminatorUnconditional ==
  FirstDashDash > 0 =>
    LET before == parseCliArgs(SubSeq(argv, 1, FirstDashDash - 1))
        after == SubSeq(argv, FirstDashDash + 1, Len(argv))
    IN  /\ args.pos = before.pos \o after
        /\ args.flags = before.flags

\* argv starts with a token --name (no "=").
HeadIsLong == argv # <<>> /\ argv[1].t = "long"

\* parseCliArgs of argv without its first n tokens.
Rest(n) == parseCliArgs(SubSeq(argv, n + 1, Len(argv)))

\* A result: flag k recorded as val, then the result rest of the tokens
\* that follow (a later occurrence of k wins).
WithFlag(k, val, rest) ==
  [pos |-> rest.pos,
   flags |-> [x \in FlagKeys |->
                IF x = k /\ rest.flags[x] = Unset THEN val
                ELSE rest.flags[x]]]

\* The flag took the next token as its string value.
Consumed == args = WithFlag(argv[1].name, FlagString(argv[2]), Rest(2))

\* The flag is boolean true and the next token is processed normally.
NotConsumed == args = WithFlag(argv[1].name, FlagTrue, Rest(1))

\* C20 as stated: a token --name without "=", whatever the name, takes the
\* next token as its string value when there is one that does not start
\* with "-", and is boolean true otherwise.
C20_Original ==
  HeadIsLong =>
    IF Len(argv) >= 2 /\ ~startsWithDash(argv[2]) THEN Consumed
    ELSE NotConsumed

\* C20, amended: a token --name without "=" whose name is one of the
\* string-typed flags (branch, depot, message, repo, target) takes the next
\* token as its string value when there is one that does not start with
\* "-", and is boolean true when no token follows; for a boolean-typed or
\* unknown name the flag is boolean true and the next token is left for
\* normal processing.
C20_TypedFlagValue ==
  HeadIsLong =>
    IF argv[1].name \in {"branch", "depot", "message", "repo", "target"}
    THEN /\ (Len(argv) >= 2 /\ ~startsWithDash(argv[2])) => Consumed
         /\ Len(argv) = 1 => NotConsumed
    ELSE NotConsumed

C20_Witness ==
  /\ Len(argv) = 3
  /\ argv[1] = Long("zz")
  /\ argv[2] = Word("a")
  /\ argv[3] = Long("repo")
  /\ args.pos = <<Word("a")>>
  /\ args.flags["zz"] = FlagTrue
  /\ args.flags["repo"] = FlagTrue

\* Parsed arguments in which every flag holds the value val.
Stored(val) == [pos |-> <<>>, flags |-> [k \in FlagKeys |-> val]]

\* What the accessors are to return for a stored value.
BoolOf(val, default) ==
  CASE val.type = "boolean" -> val.b
    [] val.type = "string" -> (val.s.t = "word" /\ val.s.name = "true")
    [] OTHER -> default

StrOf(val, fallback) == IF val.type = "string" THEN val.s ELSE fallback

\* C21: flagBool returns the stored value when it is a boolean, true exactly
\* for the stored string "true" and false for every other string (the
\* default unused), and the default only when the key is absent; flagStr
\* returns the stored value only when it is a string, else the fallback.
C21_FlagAccessors ==
  /\ \A k \in FlagKeys, d \in BOOLEAN, f \in {NoTok, Word("main")} :
       /\ flagBool(args, k, d) = BoolOf(args.flags[k], d)
       /\ flagStr(args, k, f) = StrOf(args.flags[k], f)
  /\ \A val \in {Unset, FlagBoolean(TRUE), FlagBoolean(FALSE),
                 FlagString(Word("true")), FlagString(Word("false")),
                 FlagString(Word("")), FlagString(Word("True"))} :
       \A d \in BOOLEAN, f \in {NoTok, Word("main")} :
         /\ flagBool(Stored(val), "all", d) = BoolOf(val, d)
         /\ flagStr(Stored(val), "all", f) = StrOf(val, f)

C21_Witness ==
  /\ argv = <<LongEq("all", "false"), LongEq("help", "true"), Long("repo")>>
  /\ flagBool(args, "all", TRUE) = FALSE
  /\ flagBool(args, "help", FALSE) = TRUE
  /\ flagBool(args, "zz", TRUE) = TRUE
  /\ flagStr(args, "repo", Word("main")) = Word("main")
  /\ flagBool(args, "repo", FALSE) = TRUE

\* The operation the command word stands for.
ExpectedOp(command) ==
  IF command \in {"new", "add"} THEN "new"
  ELSE IF command \in {"rm", "remove"} THEN "rm"
  ELSE IF command \in {"list", "path", "apply", "prune"} THEN command
  ELSE "unknown"

UsageOf(op) ==
  CASE op = "new" -> "UsageNew"
    [] op = "path" -> "UsagePath"
    [] op = "rm" -> "UsageRm"
    [] op = "apply" -> "UsageApply"
    [] OTHER -> "none"

\* C22: runCommand runs the new operation for new and add, the rm operation
\* for rm and remove, and list, path, apply, prune run their own operation;
\* for every other command word (a case variant such as New included) the
\* help text is printed and the command fails with Unknown command, with no
\* operation run and no git call made.
C22_Dispatch ==
  (status # "none" /\ cur.command # "none") =>
    LET op == ExpectedOp(cur.command) IN
    /\ cur.cmd = op
    /\ op = "unknown" =>
         /\ status = "error"
         /\ err = "UnknownCommand"
         /\ stdOut = {"Help"}
         /\ calls = <<>>
         /\ pc = "idle"
         /\ pre = Snapshot
    /\ op # "unknown" =>
         /\ "Help" \notin stdOut
         /\ err # "UnknownCommand"
         /\ (cur.name = NoName /\ ~cur.all /\ UsageOf(op) # "none")
              => (status = "error" /\ err = UsageOf(op))
         /\ (op = "list" /\ status = "ok") =>
              (stdOut = {"WorktreeList"} /\ calls[1].op = "worktree list")
         /\ (op = "prune" /\ status = "ok") =>
              (stdOut = {"Pruned"} /\ calls[1].op = "worktree prune")
         /\ (op = "new" /\ status = "ok") => "Created" \in stdOut
         /\ (op = "path" /\ status = "ok") => stdOut = {"Path"}

C22_Witness ==
  /\ cur.command = "New"
  /\ cur.cmd = "unknown"
  /\ status = "error"
  /\ err = "UnknownCommand"
  /\ stdOut = {"Help"}
  /\ calls = <<>>

\* The directory removeWorktree works on for a name.
RmDir(n) == worktreePath(cur.depot, RepoRoot(cur.repo), n)

\* The worktree of a name, its directory and its branch are as rm found
\* them.
RmUntouched(n) ==
  /\ WtAt(RmDir(n)) =
       {w \in pre.wts : ResolveLinks(w.path) = ResolveLinks(RmDir(n))}
  /\ (ResolveLinks(RmDir(n)) \in fsDirs) =
       (ResolveLinks(RmDir(n)) \in pre.fsDirs)
  /\ (n \in DOMAIN refs[cur.repo]) = (n \in DOMAIN pre.refs[cur.repo])
  /\ n \in DOMAIN refs[cur.repo] =>
       refs[cur.repo][n] = pre.refs[cur.repo][n]

RemoveCalls == SelectSeq(calls, IsRemoveCall)

\* C23: rm --all removes the discovered names one at a time in ascending
\* order without duplicates; when one removal fails (directory missing or
\* git worktree remove fails) the command fails there, nothing is cleaned up
\* and no branch is deleted for that name, no later name is touched, and the
\* worktrees removed before it stay removed.
C23_AllInOrderStopsAtFailure ==
  (cur.cmd = "rm" /\ cur.all /\ cur.repo \in Repos) =>
    /\ \A i, j \in 1..Len(loc.queue) :
         i < j => SegRank(loc.queue[i][1]) < SegRank(loc.queue[j][1])
    /\ \A i, j \in 1..Len(RemoveCalls) :
         i < j => SegRank(Basename(RemoveCalls[i].arg))
                    < SegRank(Basename(RemoveCalls[j].arg))
    /\ \A i \in 1..Len(RemoveCalls) :
         /\ i < Len(RemoveCalls) => RemoveCalls[i].ok
         /\ RemoveCalls[i].ok =>
              /\ WtAt(RemoveCalls[i].arg) = {}
              /\ ResolveLinks(RemoveCalls[i].arg) \notin fsDirs
              /\ Len(loc.queue) > 0 =>
                   SegRank(Basename(RemoveCalls[i].arg))
                     <= SegRank(loc.queue[1][1])
    /\ status = "error" =>
         /\ pc = "idle"
         /\ err \in {"NoWorktreeDirectory", "CommandFailed"}
         /\ Len(loc.queue) >= 1
         /\ err = "CommandFailed" =>
              /\ Len(calls) >= 1
              /\ IsRemoveCall(calls[Len(calls)])
              /\ ~calls[Len(calls)].ok
              /\ calls[Len(calls)].arg = RmDir(loc.queue[1])
         /\ err = "NoWorktreeDirectory" =>
              /\ ~existsSync(RmDir(loc.queue[1]))
              /\ \A k \in 1..Len(calls) : calls[k].arg # RmDir(loc.queue[1])
         /\ \A i \in 1..Len(loc.queue) :
              /\ RmUntouched(loc.queue[i])
              /\ \A k \in 1..Len(calls) :
                   /\ calls[k].op = "branch -D" => calls[k].arg # loc.queue[i]
                   /\ i > 1 => calls[k].arg # RmDir(loc.queue[i])

C23_Witness ==
  /\ cur.cmd = "rm"
  /\ cur.all
  /\ status = "error"
  /\ err = "CommandFailed"
  /\ Len(RemoveCalls) = 2
  /\ RemoveCalls[1].ok
  /\ Basename(RemoveCalls[1].arg) = "a"
  /\ ~RemoveCalls[2].ok
  /\ Basename(RemoveCalls[2].arg) = "b"
  /\ Cardinality(pre.wts) = 2
  /\ Cardinality(wts) = 1

\* The git calls of the command body (the restore of the finally block is
\* the quiet one).
BodyCalls == SelectSeq(calls, LAMBDA c : ~c.quiet)

RebaseSteps ==
  <<[op |-> "checkout", in |-> "repo", arg |-> cur.target],
    [op |-> "checkout", in |-> "worktree", arg |-> cur.name],
    [op |-> "rebase", in |-> "worktree", arg |-> cur.target],
    [op |-> "checkout", in |-> "repo", arg |-> cur.target],
    [op |-> "merge --ff-only", in |-> "repo", arg |-> cur.name]>>

\* C24: apply --rebase checks out target in the main repository, checks out
\* <name> in the worktree, rebases it onto target there, checks out target
\* in the main repository and merges <name> with --ff-only, in this order; a
\* failed step stops the later ones, and target moves only by the
\* fast-forward after a successful rebase, never by a merge commit.
C24_RebaseOrder ==
  (cur.cmd = "apply" /\ ~cur.sw /\ loc.mode = "rebase") =>
    LET r == cur.repo
        n == Len(BodyCalls)
    IN
    /\ n <= 5
    /\ \A i \in 1..n :
         /\ BodyCalls[i].op = RebaseSteps[i].op
         /\ BodyCalls[i].in = RebaseSteps[i].in
         /\ BodyCalls[i].arg = RebaseSteps[i].arg
         /\ i < n => BodyCalls[i].ok
    /\ (pc = "idle" /\ status = "ok") => (n = 5 /\ BodyCalls[5].ok)
    /\ (pc = "idle" /\ status = "error" /\ n >= 1) => ~BodyCalls[n].ok
    /\ DOMAIN refs[r] = DOMAIN pre.refs[r]
    /\ \A b \in DOMAIN refs[r] \ {cur.target, cur.name} :
         refs[r][b] = pre.refs[r][b]
    /\ (cur.target \in DOMAIN refs[r]
        /\ refs[r][cur.target] # pre.refs[r][cur.target]) =>
         /\ n = 5
         /\ BodyCalls[3].ok
         /\ BodyCalls[5].ok
         /\ pre.refs[r][cur.target] \subseteq refs[r][cur.target]
         /\ refs[r][cur.target] = refs[r][cur.name]

C24_Witness ==
  /\ cur.cmd = "apply"
  /\ ~cur.sw
  /\ loc.mode = "rebase"
  /\ status = "ok"
  /\ Len(BodyCalls) = 5
  /\ BodyCalls[5].op = "merge --ff-only"
  /\ BodyCalls[5].ok
  /\ refs[cur.repo][cur.target] # pre.refs[cur.repo][cur.target]
  /\ "AppliedRebase" \in stdOut

\* The history the worktree had when the command started.
PreWtHist(w) ==
  IF w.head = NoBranch THEN w.at ELSE pre.refs[w.repo][w.head]

\* The three diffs of the worktree were empty when the command started.
PrePatchEmpty ==
  /\ PreWt # {}
  /\ \A w \in PreWt :
       /\ w.files \in {"clean", "untracked"}
       /\ PreWtHist(w) = loc.baseRef

PatchRun == cur.cmd = "apply" /\ ~cur.sw /\ loc.mode = "patch"

\* C25: in apply --patch, when the committed, staged and unstaged diffs of
\* the worktree are all empty, the command reports no changes and succeeds;
\* no patch file is written, git apply and git commit are not run even with
\* --message, and the index and the branches of the main repository are
\* unchanged.
C25_EmptyPatch ==
  (PatchRun /\ PrePatchEmpty /\ Len(calls) >= 1 /\ calls[1].ok) =>
    /\ pc \in {"ap_restore", "idle"}
    /\ "NoChanges" \in stdOut
    /\ err = "none"
    /\ loc.pending = "none"
    /\ pc = "idle" => status = "ok"
    /\ \A i \in 1..Len(calls) : calls[i].op \notin {"apply --index", "commit"}
    /\ loc.patch = <<>>
    /\ tempPatchPath(cur.name) \notin fsDirs
    /\ fsDirs = pre.fsDirs
    /\ refs = pre.refs
    /\ main[cur.repo].tree = pre.main[cur.repo].tree

C25_Witness ==
  /\ PatchRun
  /\ PrePatchEmpty
  /\ cur.message = "msg"
  /\ pc = "idle"
  /\ status = "ok"
  /\ stdOut = {"NoChanges"}
  /\ Len(calls) >= 1
  /\ calls[1].ok

HasCall(op, ok) ==
  \E i \in 1..Len(calls) : calls[i].op = op /\ calls[i].ok = ok

\* The branch apply works on has commits it did not have before.
CommitCreated ==
  /\ cur.target \in DOMAIN pre.refs[cur.repo]
  /\ refs[cur.repo][cur.target] # pre.refs[cur.repo][cur.target]

\* C26 as stated: at the end of apply --patch a commit has been created
\* exactly when the patch was non-empty, git apply succeeded and --message
\* was supplied.
C26_Original ==
  (PatchRun /\ pc = "idle" /\ status # "none" /\ PreWt # {}) =>
    (CommitCreated <=>
       (/\ ~PrePatchEmpty
        /\ HasCall("apply --index", TRUE)
        /\ cur.message # Undefined))

\* C26: in apply --patch git commit is run exactly when the patch was
\* non-empty, git apply succeeded and a non-empty --message was supplied,
\* and a commit exists afterwards exactly when that git commit succeeded;
\* when git apply fails the command fails with no commit attempted, and the
\* temporary patch file is gone after git apply on both paths.
C26_CommitIff ==
  PatchRun =>
    LET asked == cur.message \notin {Undefined, ""} IN
    /\ \A i \in 1..Len(calls) :
         calls[i].op = "commit" =>
           /\ asked
           /\ i > 1
           /\ calls[i - 1].op = "apply --index"
           /\ calls[i - 1].ok
           /\ calls[i - 1].arg # <<>>
    /\ \A i \in 1..Len(calls) :
         (calls[i].op = "apply --index" /\ calls[i].ok /\ asked) =>
           IF i < Len(calls) THEN calls[i + 1].op = "commit"
           ELSE pc = "pt_commit"
    /\ \A i \in 1..Len(calls) :
         calls[i].op = "apply --index" => ~PrePatchEmpty
    /\ CommitCreated <=> HasCall("commit", TRUE)
    /\ refs # pre.refs => HasCall("commit", TRUE)
    /\ HasCall("apply --index", FALSE) =>
         /\ ~HasCall("commit", TRUE) /\ ~HasCall("commit", FALSE)
         /\ pc # "pt_commit"
         /\ refs = pre.refs
         /\ (pc = "idle" => (status = "error" /\ err = "CommandFailed"))
         /\ (pc = "ap_restore" => loc.pending = "CommandFailed")
    /\ (HasCall("commit", FALSE) /\ pc = "idle") =>
         (status = "error" /\ err = "CommandFailed")
    /\ pc = "pt_apply" => tempPatchPath(cur.name) \in fsDirs
    /\ pc # "pt_apply" =>
         (tempPatchPath(cur.name) \notin fsDirs /\ fsDirs = pre.fsDirs)

C26_Witness ==
  /\ PatchRun
  /\ cur.message = "msg"
  /\ pc = "idle"
  /\ status = "error"
  /\ err = "CommandFailed"
  /\ HasCall("apply --index", FALSE)
  /\ ~HasCall("commit", TRUE)
  /\ ~HasCall("commit", FALSE)
  /\ tempPatchPath(cur.name) \notin fsDirs
  /\ refs = pre.refs

\* The worktrees rm found at the directory of a name.
PreWtOf(n) ==
  {w \in pre.wts : ResolveLinks(w.path) = ResolveLinks(RmDir(n))}

DeleteCalls == SelectSeq(calls, LAMBDA c : c.op = "branch -D")

\* C27: rm --delete-branch passes the worktree's name to git branch -D, not
\* the branch the worktree has checked out: for a worktree made by new
\* <name> --branch B with B different from <name>, rm <name>
\* --delete-branch attempts to delete the branch <name> and B exists
\* afterwards as before.
C27_DeletesNamedBranch ==
  (cur.cmd = "rm" /\ cur.repo \in Repos) =>
    /\ \A i \in 1..Len(calls) :
         calls[i].op = "branch -D" =>
           /\ i > 1
           /\ IsRemoveCall(calls[i - 1])
           /\ calls[i - 1].arg = RmDir(calls[i].arg)
           /\ ~cur.all => calls[i].arg = cur.name
    /\ \A b \in DOMAIN pre.refs[cur.repo] :
         (\A i \in 1..Len(DeleteCalls) : DeleteCalls[i].arg # b) =>
           /\ b \in DOMAIN refs[cur.repo]
           /\ refs[cur.repo][b] = pre.refs[cur.repo][b]
    /\ (/\ ~cur.all
        /\ cur.name # NoName
        /\ \E w \in PreWtOf(cur.name) :
             w.head \notin {NoBranch, cur.name}) =>
         \A w \in PreWtOf(cur.name) :
           /\ w.head \in DOMAIN refs[cur.repo]
           /\ refs[cur.repo][w.head] = pre.refs[cur.repo][w.head]
           /\ \A i \in 1..Len(DeleteCalls) : DeleteCalls[i].arg = cur.name

C27_Witness ==
  /\ cur.cmd = "rm"
  /\ ~cur.all
  /\ cur.name = <<"a">>
  /\ cur.deleteBranch /\ ~cur.keepBranch
  /\ \E w \in PreWtOf(cur.name) : w.head = Dev
  /\ status = "ok"
  /\ Len(DeleteCalls) = 1
  /\ DeleteCalls[1].arg = <<"a">>
  /\ WtAt(RmDir(cur.name)) = {}
  /\ Dev \in DOMAIN refs[cur.repo]

====
